---- MODULE Spec2Model ----
(***************************************************************************)
(* A model of the dbgraph dependency-graph engine (package graph): the     *)
(* Graph struct with its mutation API (AddNode, AddIndex, AddEdge) and the *)
(* analyses that read it (GetDownstream, AnalyzeTopology, CheckCycles,     *)
(* CheckIndexCoverage, DetectGodObjects, the impact tree of the impact     *)
(* command), together with the steps of PostgresAdapter.FetchSchema that   *)
(* fill it.                                                                *)
(*                                                                         *)
(* g is the *Graph: g.Nodes is the map id -> Node, g.Edges the map         *)
(* source id -> slice of Edge.  ret is the value returned by the last      *)
(* call (mutators return nothing).  adapter is the command's Adapter and   *)
(* its connection pool.  A Go map is ranged over in an unspecified order:   *)
(* every such loop takes its order from Perms(keys).                       *)
(***************************************************************************)
EXTENDS Integers, Sequences, FiniteSets, TLC

VARIABLES g, ret, adapter

vars == <<g, ret, adapter>>

(***************************************************************************)
(* Bounds of the model and the input domains of the calls.                 *)
(***************************************************************************)
MaxEdges == 2

MaxIndexes == 1

MaxCalls == 12

MaxTopoEdges == 3

Schemas == {"public"}

Names == {"A", "B"}

TopoNames == {"A", "B", "C"}

Table == "TABLE"

View == "VIEW"

Trigger == "TRIGGER"

ForeignKey == "FOREIGN_KEY"

ViewDepends == "VIEW_DEPENDS"

TriggerAction == "TRIGGER_ACTION"

Inheritance == "INHERITANCE"

NodeTypes == {Table, View}

Sizes == {"", "8kB", "16MB"}

RowCounts == {0, 500, 2000}

\* a column name is a Go string that strings.Split / strings.Join act on: a sequence of characters
IndexColumns == {<< <<"a">>, <<"b">> >>}

\* <<depType, constraintName, deleteRule>> as the adapter passes them
EdgeKinds == {<<ForeignKey, "fk", "CASCADE">>}

(***************************************************************************)
(* Helpers for Go maps and slices.                                         *)
(***************************************************************************)
EmptyMap == [x \in {} |-> 0]

\* m[k] = v on a map
MapPut(m, k, v) == [x \in (DOMAIN m) \cup {k} |-> IF x = k THEN v ELSE m[x]]

\* m[k] on a map[string]int / map[string]bool / map[string][]T: zero value when absent
MapGet(m, k, zero) == IF k \in DOMAIN m THEN m[k] ELSE zero

\* the orders in which a range over a map with key set S can deliver the keys
Perms(S) == {p \in [1..Cardinality(S) -> S] : \A i, j \in 1..Cardinality(S) : p[i] = p[j] => i = j}

Range(s) == {s[i] : i \in DOMAIN s}

Max2(a, b) == IF a > b THEN a ELSE b

RECURSIVE SumLens(_, _)
SumLens(m, keys) ==
    IF keys = {} THEN 0
    ELSE LET k == CHOOSE x \in keys : TRUE
         IN  Len(m[k]) + SumLens(m, keys \ {k})

(***************************************************************************)
(* The Graph and its mutation API.                                         *)
(***************************************************************************)
\* fmt.Sprintf("%s.%s", schema, name)
NodeID(schema, name) == schema \o "." \o name

NewGraph == [Nodes |-> EmptyMap, Edges |-> EmptyMap]

\* AddNode with the emptiness tests of lines 162 and 165 dropped
AddNode_Overwrite(G, schema, name, nodeType, size, rowCount) ==
    LET id == NodeID(schema, name) IN
    IF id \notin DOMAIN G.Nodes
    THEN [G EXCEPT !.Nodes = MapPut(G.Nodes, id,
              [ID |-> id, Schema |-> schema, Name |-> name, Type |-> nodeType,
               Size |-> size, RowCount |-> rowCount, Indexes |-> <<>>])]
    ELSE LET n  == G.Nodes[id]
             n1 == IF size # "" THEN [n EXCEPT !.Size = size] ELSE n
             n2 == IF rowCount # 0 THEN [n1 EXCEPT !.RowCount = rowCount] ELSE n1
         IN  [G EXCEPT !.Nodes[id] = n2]

AddNode(G, schema, name, nodeType, size, rowCount) ==
    LET id == NodeID(schema, name) IN
    IF id \notin DOMAIN G.Nodes
    THEN [G EXCEPT !.Nodes = MapPut(G.Nodes, id,
              [ID |-> id, Schema |-> schema, Name |-> name, Type |-> nodeType,
               Size |-> size, RowCount |-> rowCount, Indexes |-> <<>>])]
    ELSE LET n  == G.Nodes[id]
             n1 == IF n.Size = "" /\ size # "" THEN [n EXCEPT !.Size = size] ELSE n
             n2 == IF n1.RowCount = 0 /\ rowCount # 0
                   THEN [n1 EXCEPT !.RowCount = rowCount] ELSE n1
         IN  [G EXCEPT !.Nodes[id] = n2]

AddIndex(G, schema, name, columns) ==
    LET id == NodeID(schema, name) IN
    IF id \in DOMAIN G.Nodes
    THEN [G EXCEPT !.Nodes[id].Indexes = Append(@, columns)]
    ELSE G

\* AddEdge that forgets to auto-add a missing target
AddEdge_NoTarget(G, sourceSchema, sourceName, targetSchema, targetName, depType, constraintName, deleteRule) ==
    LET sourceID == NodeID(sourceSchema, sourceName)
        targetID == NodeID(targetSchema, targetName)
        G1 == IF sourceID \notin DOMAIN G.Nodes
              THEN AddNode(G, sourceSchema, sourceName, Table, "", 0) ELSE G
        edge == [SourceID |-> sourceID, TargetID |-> targetID, Type |-> depType,
                 ConstraintName |-> constraintName, DeleteRule |-> deleteRule,
                 MetaData |-> EmptyMap]
    IN  [G1 EXCEPT !.Edges = MapPut(G1.Edges, sourceID,
                                    Append(MapGet(G1.Edges, sourceID, <<>>), edge))]

AddEdge(G, sourceSchema, sourceName, targetSchema, targetName, depType, constraintName, deleteRule) ==
    LET sourceID == NodeID(sourceSchema, sourceName)
        targetID == NodeID(targetSchema, targetName)
        G1 == IF sourceID \notin DOMAIN G.Nodes
              THEN AddNode(G, sourceSchema, sourceName, Table, "", 0) ELSE G
        G2 == IF targetID \notin DOMAIN G1.Nodes
              THEN AddNode(G1, targetSchema, targetName, Table, "", 0) ELSE G1
        edge == [SourceID |-> sourceID, TargetID |-> targetID, Type |-> depType,
                 ConstraintName |-> constraintName, DeleteRule |-> deleteRule,
                 MetaData |-> EmptyMap]
    IN  [G2 EXCEPT !.Edges = MapPut(G2.Edges, sourceID,
                                    Append(MapGet(G2.Edges, sourceID, <<>>), edge))]

NumEdges(G) == SumLens(G.Edges, DOMAIN G.Edges)

RECURSIVE SumIndexes(_, _)
SumIndexes(nodes, keys) ==
    IF keys = {} THEN 0
    ELSE LET k == CHOOSE x \in keys : TRUE
         IN  Len(nodes[k].Indexes) + SumIndexes(nodes, keys \ {k})

NumIndexes(G) == SumIndexes(G.Nodes, DOMAIN G.Nodes)

NoRet == [op |-> "none"]

\* var a Adapter before NewAdapter returned one: no adapter, no pool
NoAdapter == [kind |-> "nil", Pool |-> "nil"]

(***************************************************************************)
(* GetDownstream: breadth-first search on the reversed edges.              *)
(***************************************************************************)
\* the pairs <<src, edge>> that the nested loops
\*   for src, edges := range g.Edges { for _, edge := range edges {
\* deliver when the map hands out its keys in the given order
RECURSIVE EdgesInOrder(_, _)
EdgesInOrder(G, order) ==
    IF order = <<>> THEN <<>>
    ELSE [i \in DOMAIN G.Edges[Head(order)] |->
             [src |-> Head(order), edge |-> G.Edges[Head(order)][i]]]
         \o EdgesInOrder(G, Tail(order))

\* reverseEdges[edge.TargetID] = append(reverseEdges[edge.TargetID], src)
RECURSIVE ReverseSources(_, _)
ReverseSources(pairs, rev) ==
    IF pairs = <<>> THEN rev
    ELSE LET t == Head(pairs).edge.TargetID
         IN  ReverseSources(Tail(pairs),
                            MapPut(rev, t, Append(MapGet(rev, t, <<>>), Head(pairs).src)))

\* the loop over dependents without the visited test
RECURSIVE DownstreamScan_NoVisited(_, _, _)
DownstreamScan_NoVisited(st, dependents, i) ==
    IF i > Len(dependents) THEN st
    ELSE LET dep == dependents[i]
         IN  DownstreamScan_NoVisited([st EXCEPT !.visited = @ \cup {dep},
                                                 !.impactedMap = @ \cup {dep},
                                                 !.queue = Append(@, dep)], dependents, i + 1)

\* for _, dep := range dependents { if !visited[dep] { ... } }
RECURSIVE DownstreamScan(_, _, _)
DownstreamScan(st, dependents, i) ==
    IF i > Len(dependents) THEN st
    ELSE LET dep == dependents[i]
         IN  IF dep \notin st.visited
             THEN DownstreamScan([st EXCEPT !.visited = @ \cup {dep},
                                            !.impactedMap = @ \cup {dep},
                                            !.queue = Append(@, dep)], dependents, i + 1)
             ELSE DownstreamScan(st, dependents, i + 1)

\* for idx < len(queue) { current := queue[idx]; idx++; ... }
\* steps counts the iterations; the loop is cut off (done = FALSE) after MaxCalls of them
RECURSIVE DownstreamLoop(_, _, _)
DownstreamLoop(st, idx, reverseEdges) ==
    IF idx > Len(st.queue) THEN st
    ELSE IF st.steps >= MaxCalls THEN [st EXCEPT !.done = FALSE]
    ELSE DownstreamLoop(
             DownstreamScan([st EXCEPT !.steps = @ + 1],
                            MapGet(reverseEdges, st.queue[idx], <<>>), 1),
             idx + 1, reverseEdges)

\* the state of GetDownstream when its loop ends; impactedMap holds the result
GetDownstream(G, nodeID, edgeOrder) ==
    DownstreamLoop([queue |-> <<nodeID>>, visited |-> {nodeID}, impactedMap |-> {},
                    steps |-> 0, done |-> TRUE],
                   1, ReverseSources(EdgesInOrder(G, edgeOrder), EmptyMap))

(***************************************************************************)
(* AnalyzeTopology.                                                        *)
(***************************************************************************)
\* some delivery order of the keys, for the loops whose result is the same in every order
AnyOrder(S) == CHOOSE p \in Perms(S) : TRUE

\* inDegree[edge.TargetID]++
RECURSIVE InDegrees(_, _)
InDegrees(pairs, inDegree) ==
    IF pairs = <<>> THEN inDegree
    ELSE LET t == Head(pairs).edge.TargetID
         IN  InDegrees(Tail(pairs), MapPut(inDegree, t, MapGet(inDegree, t, 0) + 1))

\* outDegree[src] += len(edges), once for every key of g.Edges
OutDegrees(G) == [src \in DOMAIN G.Edges |-> Len(G.Edges[src])]

\* edgeCount += len(edges)
EdgeCount(G) == SumLens(G.Edges, DOMAIN G.Edges)

\* (Density_NonEmpty is Density with the test Nodes > 0)
\* stats.Density: float64(edgeCount) / float64(Nodes*(Nodes-1)) as the fraction num/den,
\* the zero value of the field when the test Nodes > 1 fails
Density_NonEmpty(nodes, edgeCount) ==
    IF nodes > 0 THEN [num |-> edgeCount, den |-> nodes * (nodes - 1)]
    ELSE [num |-> 0, den |-> 1]

Density(nodes, edgeCount) ==
    IF nodes > 1 THEN [num |-> edgeCount, den |-> nodes * (nodes - 1)]
    ELSE [num |-> 0, den |-> 1]


\* for id, node := range g.Nodes: the running maximum and the ranks in delivery order
RECURSIVE Centrality(_, _, _, _, _)
Centrality(G, order, inDegree, outDegree, acc) ==
    IF order = <<>> THEN acc
    ELSE LET id     == Head(order)
             dIn    == MapGet(inDegree, id, 0)
             dOut   == MapGet(outDegree, id, 0)
             dTotal == dIn + dOut
             better == dTotal > acc.maxDegree
         IN  Centrality(G, Tail(order), inDegree, outDegree,
                 [maxDegree   |-> IF better THEN dTotal ELSE acc.maxDegree,
                  centralNode |-> IF better THEN id ELSE acc.centralNode,
                  ranks       |-> Append(acc.ranks,
                                     [ID |-> id, Type |-> G.Nodes[id].Type,
                                      InDegree |-> dIn, OutDegree |-> dOut,
                                      Rows |-> G.Nodes[id].RowCount,
                                      Centrality |-> dTotal])])

\* ranks[j], ranks[j+1] = ranks[j+1], ranks[j]   (j counted from 0)
Swap(ranks, j) == [ranks EXCEPT ![j + 1] = ranks[j + 2], ![j + 2] = ranks[j + 1]]

\* for j := 0; j < len(ranks)-i-1; j++
RECURSIVE BubbleInner(_, _, _)
BubbleInner(ranks, i, j) ==
    IF j >= Len(ranks) - i - 1 THEN ranks
    ELSE BubbleInner(IF ranks[j + 1].Centrality < ranks[j + 2].Centrality
                     THEN Swap(ranks, j) ELSE ranks, i, j + 1)

\* the bubble sort stopping after its first pass
BubbleSort_OnePass(ranks, i) ==
    IF i >= Len(ranks) - 1 \/ i >= 1 THEN ranks
    ELSE BubbleInner(ranks, i, 0)

\* for i := 0; i < len(ranks)-1; i++
RECURSIVE BubbleSort(_, _)
BubbleSort(ranks, i) ==
    IF i >= Len(ranks) - 1 THEN ranks
    ELSE BubbleSort(BubbleInner(ranks, i, 0), i + 1)

\* maxDegree, centralNode and the sorted ranks for one delivery order of g.Nodes
Ranking(G, nodeOrder) ==
    LET acc == Centrality(G, nodeOrder,
                          InDegrees(EdgesInOrder(G, AnyOrder(DOMAIN G.Edges)), EmptyMap),
                          OutDegrees(G),
                          [maxDegree |-> 0, centralNode |-> "", ranks |-> <<>>])
    IN  [acc EXCEPT !.ranks = BubbleSort(acc.ranks, 0)]

\* the adjacency built in the direction of the edges only
RECURSIVE Undirected_OneWay(_, _)
Undirected_OneWay(pairs, undirected) ==
    IF pairs = <<>> THEN undirected
    ELSE LET src == Head(pairs).src
             t   == Head(pairs).edge.TargetID
         IN  Undirected_OneWay(Tail(pairs),
                 MapPut(undirected, src, Append(MapGet(undirected, src, <<>>), t)))

\* undirected[src] = append(.., edge.TargetID); undirected[edge.TargetID] = append(.., src)
RECURSIVE Undirected(_, _)
Undirected(pairs, undirected) ==
    IF pairs = <<>> THEN undirected
    ELSE LET src == Head(pairs).src
             t   == Head(pairs).edge.TargetID
             u1  == MapPut(undirected, src, Append(MapGet(undirected, src, <<>>), t))
         IN  Undirected(Tail(pairs), MapPut(u1, t, Append(MapGet(u1, t, <<>>), src)))

\* for _, neighbor := range undirected[curr] { if !visited[neighbor] { ... } }
RECURSIVE ComponentScan(_, _, _)
ComponentScan(st, neighbors, i) ==
    IF i > Len(neighbors) THEN st
    ELSE LET neighbor == neighbors[i]
         IN  IF neighbor \notin st.visited
             THEN ComponentScan([st EXCEPT !.visited = @ \cup {neighbor},
                                           !.queue = Append(@, neighbor),
                                           !.componentNodes = Append(@, neighbor)],
                                neighbors, i + 1)
             ELSE ComponentScan(st, neighbors, i + 1)

\* for cIdx < len(queue) { curr := queue[cIdx]; cIdx++; ... }
RECURSIVE ComponentBFS(_, _, _)
ComponentBFS(st, cIdx, undirected) ==
    IF cIdx > Len(st.queue) THEN st
    ELSE ComponentBFS(ComponentScan(st, MapGet(undirected, st.queue[cIdx], <<>>), 1),
                      cIdx + 1, undirected)

\* strings.Join(s, " ")
RECURSIVE JoinSpace(_)
JoinSpace(s) ==
    IF s = <<>> THEN ""
    ELSE IF Len(s) = 1 THEN s[1]
    ELSE s[1] \o " " \o JoinSpace(Tail(s))

\* fmt.Sprintf("%v", componentNodes) of a []string
FmtSlice(s) == "[" \o JoinSpace(s) \o "]"

\* the components loop storing a cluster only when len(componentNodes) < 2
RECURSIVE ComponentsLoop_SizeTwo(_, _, _)
ComponentsLoop_SizeTwo(order, st, undirected) ==
    IF order = <<>> THEN st
    ELSE LET id == Head(order) IN
         IF id \in st.visited THEN ComponentsLoop_SizeTwo(Tail(order), st, undirected)
         ELSE IF Len(MapGet(undirected, id, <<>>)) = 0
         THEN ComponentsLoop_SizeTwo(Tail(order),
                  [st EXCEPT !.components = @ + 1, !.visited = @ \cup {id},
                             !.isolated = Append(@, id)], undirected)
         ELSE LET b == ComponentBFS([visited |-> st.visited \cup {id}, queue |-> <<id>>,
                                     componentNodes |-> <<id>>], 1, undirected)
              IN  ComponentsLoop_SizeTwo(Tail(order),
                      [components |-> st.components + 1, visited |-> b.visited,
                       isolated |-> IF Len(b.componentNodes) < 2 /\ Len(b.componentNodes) > 0
                                    THEN Append(st.isolated, FmtSlice(b.componentNodes))
                                    ELSE st.isolated], undirected)

\* for id := range g.Nodes { if !visited[id] { ... } }
RECURSIVE ComponentsLoop(_, _, _)
ComponentsLoop(order, st, undirected) ==
    IF order = <<>> THEN st
    ELSE LET id == Head(order) IN
         IF id \in st.visited THEN ComponentsLoop(Tail(order), st, undirected)
         ELSE IF Len(MapGet(undirected, id, <<>>)) = 0
         THEN ComponentsLoop(Tail(order),
                  [st EXCEPT !.components = @ + 1, !.visited = @ \cup {id},
                             !.isolated = Append(@, id)], undirected)
         ELSE LET b == ComponentBFS([visited |-> st.visited \cup {id}, queue |-> <<id>>,
                                     componentNodes |-> <<id>>], 1, undirected)
              IN  ComponentsLoop(Tail(order),
                      [components |-> st.components + 1, visited |-> b.visited,
                       isolated |-> IF Len(b.componentNodes) < 3 /\ Len(b.componentNodes) > 0
                                    THEN Append(st.isolated, FmtSlice(b.componentNodes))
                                    ELSE st.isolated], undirected)

\* components and isolated for one delivery order of g.Edges and one of g.Nodes
Components(G, edgeOrder, nodeOrder) ==
    ComponentsLoop(nodeOrder, [components |-> 0, visited |-> {}, isolated |-> <<>>],
                   Undirected(EdgesInOrder(G, edgeOrder), EmptyMap))

\* getDepth: st carries memo and pathStack, calls counts the invocations; the recursion
\* is cut off (done = FALSE) after MaxCalls of them
RECURSIVE getDepth(_, _, _), getDepthLoop(_, _, _, _, _)

\* getDepth that answers 1 for a node on the current path
getDepth_CycleOne(G, st, id) ==
    IF st.calls >= MaxCalls THEN [d |-> 0, st |-> [st EXCEPT !.done = FALSE]]
    ELSE LET s1 == [st EXCEPT !.calls = @ + 1] IN
         IF id \in DOMAIN s1.memo THEN [d |-> s1.memo[id], st |-> s1]
         ELSE IF MapGet(s1.pathStack, id, FALSE) THEN [d |-> 1, st |-> s1]
         ELSE LET r == getDepthLoop(G, [s1 EXCEPT !.pathStack = MapPut(@, id, TRUE)],
                                    id, 1, 0)
              IN  [d  |-> 1 + r.d,
                   st |-> [r.st EXCEPT !.pathStack = MapPut(@, id, FALSE),
                                       !.memo = MapPut(@, id, 1 + r.d)]]

\* getDepth without the pathStack test
getDepth_NoPathGuard(G, st, id) ==
    IF st.calls >= MaxCalls THEN [d |-> 0, st |-> [st EXCEPT !.done = FALSE]]
    ELSE LET s1 == [st EXCEPT !.calls = @ + 1] IN
         IF id \in DOMAIN s1.memo THEN [d |-> s1.memo[id], st |-> s1]
         ELSE LET r == getDepthLoop(G, [s1 EXCEPT !.pathStack = MapPut(@, id, TRUE)],
                                    id, 1, 0)
              IN  [d  |-> 1 + r.d,
                   st |-> [r.st EXCEPT !.pathStack = MapPut(@, id, FALSE),
                                       !.memo = MapPut(@, id, 1 + r.d)]]

\* the loop of getDepth keeping the depth of the last edge instead of the maximum
RECURSIVE getDepthLoop_Last(_, _, _, _, _)
getDepthLoop_Last(G, st, id, i, maxD) ==
    IF i > Len(MapGet(G.Edges, id, <<>>)) THEN [d |-> maxD, st |-> st]
    ELSE LET r == getDepth(G, st, G.Edges[id][i].TargetID)
         IN  getDepthLoop_Last(G, r.st, id, i + 1, r.d)

getDepth(G, st, id) ==
    IF st.calls >= MaxCalls THEN [d |-> 0, st |-> [st EXCEPT !.done = FALSE]]
    ELSE LET s1 == [st EXCEPT !.calls = @ + 1] IN
         IF id \in DOMAIN s1.memo THEN [d |-> s1.memo[id], st |-> s1]
         ELSE IF MapGet(s1.pathStack, id, FALSE) THEN [d |-> 0, st |-> s1]
         ELSE LET r == getDepthLoop(G, [s1 EXCEPT !.pathStack = MapPut(@, id, TRUE)],
                                    id, 1, 0)
              IN  [d  |-> 1 + r.d,
                   st |-> [r.st EXCEPT !.pathStack = MapPut(@, id, FALSE),
                                       !.memo = MapPut(@, id, 1 + r.d)]]

\* for _, edge := range g.Edges[id] { d := getDepth(edge.TargetID, pathStack); ... }
getDepthLoop(G, st, id, i, maxD) ==
    IF i > Len(MapGet(G.Edges, id, <<>>)) THEN [d |-> maxD, st |-> st]
    ELSE LET r == getDepth(G, st, G.Edges[id][i].TargetID)
         IN  getDepthLoop(G, r.st, id, i + 1, Max2(maxD, r.d))

\* for id := range g.Nodes { d := getDepth(id, make(map[string]bool)); ... }
RECURSIVE LongestPathLoop(_, _, _, _)
LongestPathLoop(G, order, st, maxPath) ==
    IF order = <<>> THEN [maxPath |-> maxPath, calls |-> st.calls, done |-> st.done]
    ELSE LET r == getDepth(G, [st EXCEPT !.pathStack = EmptyMap], Head(order))
         IN  LongestPathLoop(G, Tail(order), r.st, Max2(maxPath, r.d))

LongestPath(G, nodeOrder) ==
    LongestPathLoop(G, nodeOrder,
                    [memo |-> EmptyMap, pathStack |-> EmptyMap, calls |-> 0, done |-> TRUE], 0)

\* the reports AnalyzeTopology can return: every range over a map takes its own order
AnalyzeTopology(G) ==
    LET rankings == {Ranking(G, o) : o \in Perms(DOMAIN G.Nodes)}
        comps    == {Components(G, eo, no) :
                        eo \in Perms(DOMAIN G.Edges), no \in Perms(DOMAIN G.Nodes)}
        depths   == {LongestPath(G, o) : o \in Perms(DOMAIN G.Nodes)}
    IN  {[Nodes          |-> Cardinality(DOMAIN G.Nodes),
          Edges          |-> EdgeCount(G),
          Density        |-> Density(Cardinality(DOMAIN G.Nodes), EdgeCount(G)),
          Components     |-> c.components,
          MaxCentrality  |-> r.maxDegree,
          CentralNode    |-> r.centralNode,
          LongestPath    |-> d.maxPath,
          DeepestChain   |-> <<>>,
          IsolatedGroups |-> c.isolated,
          TopNodes       |-> r.ranks,
          done           |-> d.done] : r \in rankings, c \in comps, d \in depths}

(***************************************************************************)
(* CheckCycles: Tarjan's algorithm.  st carries index, stack, indices,     *)
(* lowLink, onStack and sccs; calls counts the invocations of              *)
(* strongconnect, cut off (done = FALSE) after MaxCalls of them.           *)
(***************************************************************************)
\* for _, e := range edges { if e.TargetID == v { isCycle = true; break } }
HasSelfLoop(G, v) ==
    /\ v \in DOMAIN G.Edges
    /\ \E i \in DOMAIN G.Edges[v] : G.Edges[v][i].TargetID = v

\* for { w := stack[len(stack)-1]; stack = stack[:len(stack)-1]; ...; if w == v { break } }
RECURSIVE PopSCC(_, _, _)
PopSCC(st, v, scc) ==
    IF st.stack = <<>> THEN [st |-> [st EXCEPT !.done = FALSE], scc |-> scc]
    ELSE LET w  == st.stack[Len(st.stack)]
             s1 == [st EXCEPT !.stack = SubSeq(@, 1, Len(@) - 1),
                              !.onStack = MapPut(@, w, FALSE)]
         IN  IF w = v THEN [st |-> s1, scc |-> Append(scc, w)]
             ELSE PopSCC(s1, v, Append(scc, w))

\* RootCheck reporting every popped component
RootCheck_ReportAll(G, st, v) ==
    IF MapGet(st.lowLink, v, 0) = MapGet(st.indices, v, 0)
    THEN LET p == PopSCC(st, v, <<>>)
         IN  [p.st EXCEPT !.sccs = Append(@, p.scc)]
    ELSE st

\* if lowLink[v] == indices[v] { pop the component; report it when it is a cycle }
RootCheck(G, st, v) ==
    IF MapGet(st.lowLink, v, 0) = MapGet(st.indices, v, 0)
    THEN LET p       == PopSCC(st, v, <<>>)
             isCycle == Len(p.scc) > 1 \/ (Len(p.scc) = 1 /\ HasSelfLoop(G, v))
         IN  IF isCycle THEN [p.st EXCEPT !.sccs = Append(@, p.scc)] ELSE p.st
    ELSE st

RECURSIVE strongconnect(_, _, _), strongconnectLoop(_, _, _, _)
strongconnect(G, st, v) ==
    IF st.calls >= MaxCalls THEN [st EXCEPT !.done = FALSE]
    ELSE LET s1 == [st EXCEPT !.indices = MapPut(@, v, st.index),
                              !.lowLink = MapPut(@, v, st.index),
                              !.index = @ + 1,
                              !.stack = Append(@, v),
                              !.onStack = MapPut(@, v, TRUE),
                              !.calls = @ + 1]
             s2 == IF v \in DOMAIN G.Edges THEN strongconnectLoop(G, s1, v, 1) ELSE s1
         IN  RootCheck(G, s2, v)

\* for _, wEdge := range edges { w := wEdge.TargetID; ... }
strongconnectLoop(G, st, v, i) ==
    IF i > Len(G.Edges[v]) THEN st
    ELSE LET w == G.Edges[v][i].TargetID IN
         IF w \notin DOMAIN st.indices
         THEN LET s1 == strongconnect(G, st, w)
              IN  strongconnectLoop(G,
                      IF MapGet(s1.lowLink, w, 0) < MapGet(s1.lowLink, v, 0)
                      THEN [s1 EXCEPT !.lowLink = MapPut(@, v, MapGet(s1.lowLink, w, 0))]
                      ELSE s1, v, i + 1)
         ELSE IF MapGet(st.onStack, w, FALSE)
         THEN strongconnectLoop(G,
                  IF MapGet(st.indices, w, 0) < MapGet(st.lowLink, v, 0)
                  THEN [st EXCEPT !.lowLink = MapPut(@, v, MapGet(st.indices, w, 0))]
                  ELSE st, v, i + 1)
         ELSE strongconnectLoop(G, st, v, i + 1)

\* for nodeID := range g.Nodes { if _, ok := indices[nodeID]; !ok { strongconnect(nodeID) } }
RECURSIVE CheckCyclesLoop(_, _, _)
CheckCyclesLoop(G, order, st) ==
    IF order = <<>> THEN st
    ELSE IF Head(order) \in DOMAIN st.indices THEN CheckCyclesLoop(G, Tail(order), st)
    ELSE CheckCyclesLoop(G, Tail(order), strongconnect(G, st, Head(order)))

\* the state of CheckCycles when it returns sccs, for one delivery order of g.Nodes
CheckCycles(G, nodeOrder) ==
    CheckCyclesLoop(G, nodeOrder,
                    [index |-> 0, stack |-> <<>>, indices |-> EmptyMap, lowLink |-> EmptyMap,
                     onStack |-> EmptyMap, sccs |-> <<>>, calls |-> 0, done |-> TRUE])

(***************************************************************************)
(* The impact command: the reverse-dependency tree and its warnings.       *)
(***************************************************************************)
CascadeRowThreshold == 1000

ViewCouplingLevel == 2

\* strings.Split(s, sep) on a string given as its sequence of characters
RECURSIVE SplitFrom(_, _, _)
SplitFrom(s, sep, cur) ==
    IF s = <<>> THEN <<cur>>
    ELSE IF Head(s) = sep THEN <<cur>> \o SplitFrom(Tail(s), sep, <<>>)
    ELSE SplitFrom(Tail(s), sep, Append(cur, Head(s)))

Split(s, sep) == SplitFrom(s, sep, <<>>)

\* reverseEdges[edge.TargetID] = append(reverseEdges[edge.TargetID], edge)
RECURSIVE ReverseEdges(_, _)
ReverseEdges(pairs, rev) ==
    IF pairs = <<>> THEN rev
    ELSE LET e == Head(pairs).edge
         IN  ReverseEdges(Tail(pairs),
                          MapPut(rev, e.TargetID, Append(MapGet(rev, e.TargetID, <<>>), e)))

\* the test that accepts the foreign key's columns at any position of the index
PrefixMatch_AnyPosition(idxCols, fkCols) ==
    /\ Len(idxCols) >= Len(fkCols)
    /\ \A i \in DOMAIN fkCols : \E j \in DOMAIN idxCols : idxCols[j] = fkCols[i]

\* if len(idxCols) >= len(fkCols) and the first len(fkCols) columns are equal
PrefixMatch(idxCols, fkCols) ==
    /\ Len(idxCols) >= Len(fkCols)
    /\ \A i \in DOMAIN fkCols : idxCols[i] = fkCols[i]

\* the warnings with a cascade warning for every edge that carries a delete rule
EdgeWarnings_AnyRule(G, node, level, edge) ==
    LET src     == edge.SourceID
        cascade == IF edge.DeleteRule # ""
                   THEN <<[severity |-> "High", kind |-> "Cascade Delete",
                           parent |-> node.ID, child |-> src,
                           rows |-> IF node.RowCount > CascadeRowThreshold
                                    THEN <<node.RowCount>> ELSE <<>>]>>
                   ELSE <<>>
        view    == IF edge.Type = ViewDepends /\ level >= ViewCouplingLevel
                   THEN <<[severity |-> "Med", kind |-> "View Coupling",
                           child |-> src, level |-> level]>>
                   ELSE <<>>
        cols    == MapGet(edge.MetaData, "fk_columns", <<>>)
        missing == IF /\ edge.Type = ForeignKey
                      /\ "fk_columns" \in DOMAIN edge.MetaData
                      /\ cols # <<>>
                      /\ ~\E k \in DOMAIN G.Nodes[src].Indexes :
                             PrefixMatch(G.Nodes[src].Indexes[k], Split(cols, ","))
                   THEN <<[severity |-> "Med", kind |-> "Missing Index",
                           child |-> src, cols |-> cols]>>
                   ELSE <<>>
    IN  cascade \o view \o missing

\* the warnings appended after the child reached over edge has been attached:
\* node is the parent (id, at level), src the child
EdgeWarnings(G, node, level, edge) ==
    LET src     == edge.SourceID
        cascade == IF edge.DeleteRule = "CASCADE"
                   THEN <<[severity |-> "High", kind |-> "Cascade Delete",
                           parent |-> node.ID, child |-> src,
                           rows |-> IF node.RowCount > CascadeRowThreshold
                                    THEN <<node.RowCount>> ELSE <<>>]>>
                   ELSE <<>>
        view    == IF edge.Type = ViewDepends /\ level >= ViewCouplingLevel
                   THEN <<[severity |-> "Med", kind |-> "View Coupling",
                           child |-> src, level |-> level]>>
                   ELSE <<>>
        cols    == MapGet(edge.MetaData, "fk_columns", <<>>)
        missing == IF /\ edge.Type = ForeignKey
                      /\ "fk_columns" \in DOMAIN edge.MetaData
                      /\ cols # <<>>
                      /\ ~\E k \in DOMAIN G.Nodes[src].Indexes :
                             PrefixMatch(G.Nodes[src].Indexes[k], Split(cols, ","))
                   THEN <<[severity |-> "Med", kind |-> "Missing Index",
                           child |-> src, cols |-> cols]>>
                   ELSE <<>>
    IN  cascade \o view \o missing

\* buildTree: st carries visited, totalAffected, structures and warnings; calls counts
\* the invocations, cut off (done = FALSE) after MaxCalls of them.  EdgeMeta is <<>>
\* for nil and <<edge>> otherwise.
RECURSIVE buildTree(_, _, _, _, _), buildTreeLoop(_, _, _, _, _, _)

\* buildTree counting the node of every level, the target included
buildTree_CountsRoot(G, rev, st, id, level) ==
    LET node == [ID |-> id, Type |-> G.Nodes[id].Type, Size |-> G.Nodes[id].Size,
                 RowCount |-> G.Nodes[id].RowCount, EdgeMeta |-> <<>>,
                 Children |-> <<>>, Level |-> level]
    IN  IF st.calls >= MaxCalls THEN [node |-> node, st |-> [st EXCEPT !.done = FALSE]]
        ELSE LET s1 == [st EXCEPT !.totalAffected = @ + 1,
                                  !.structures = MapPut(@, node.Type,
                                                        MapGet(@, node.Type, 0) + 1)]
             IN  buildTreeLoop(G, rev,
                     [s1 EXCEPT !.visited = @ \cup {id}, !.calls = @ + 1], node, level, 1)

buildTree(G, rev, st, id, level) ==
    LET node == [ID |-> id, Type |-> G.Nodes[id].Type, Size |-> G.Nodes[id].Size,
                 RowCount |-> G.Nodes[id].RowCount, EdgeMeta |-> <<>>,
                 Children |-> <<>>, Level |-> level]
    IN  IF st.calls >= MaxCalls THEN [node |-> node, st |-> [st EXCEPT !.done = FALSE]]
        ELSE LET s1 == IF level > 0
                       THEN [st EXCEPT !.totalAffected = @ + 1,
                                       !.structures = MapPut(@, node.Type,
                                                             MapGet(@, node.Type, 0) + 1)]
                       ELSE st
             IN  buildTreeLoop(G, rev,
                     [s1 EXCEPT !.visited = @ \cup {id}, !.calls = @ + 1], node, level, 1)

\* for _, edge := range reverseEdges[id] { src := edge.SourceID; if !visited[src] { ... } }
buildTreeLoop(G, rev, st, node, level, i) ==
    IF i > Len(MapGet(rev, node.ID, <<>>)) THEN [node |-> node, st |-> st]
    ELSE LET edge == rev[node.ID][i] IN
         IF edge.SourceID \notin st.visited
         THEN LET r   == buildTree(G, rev, st, edge.SourceID, level + 1)
                  kid == [r.node EXCEPT !.EdgeMeta = <<edge>>]
              IN  buildTreeLoop(G, rev,
                      [r.st EXCEPT !.warnings = @ \o EdgeWarnings(G, node, level, edge)],
                      [node EXCEPT !.Children = Append(@, kid)], level, i + 1)
         ELSE buildTreeLoop(G, rev, st, node, level, i + 1)

\* the wrapper getDepth of the command: the height of the tree
RECURSIVE treeDepth(_), treeDepthLoop(_, _, _)
treeDepth(n) == IF Len(n.Children) = 0 THEN 0 ELSE 1 + treeDepthLoop(n, 1, 0)

treeDepthLoop(n, i, max) ==
    IF i > Len(n.Children) THEN max
    ELSE treeDepthLoop(n, i + 1, Max2(max, treeDepth(n.Children[i])))

\* root := buildTree(targetID, 0, make(map[string]bool)), for one delivery order of g.Edges
Impact(G, targetID, edgeOrder) ==
    LET r == buildTree(G, ReverseEdges(EdgesInOrder(G, edgeOrder), EmptyMap),
                       [visited |-> {}, totalAffected |-> 0, structures |-> EmptyMap,
                        warnings |-> <<>>, calls |-> 0, done |-> TRUE],
                       targetID, 0)
    IN  [root |-> r.node, depth |-> treeDepth(r.node),
         totalAffected |-> r.st.totalAffected, structures |-> r.st.structures,
         warnings |-> r.st.warnings, done |-> r.st.done]

(***************************************************************************)
(* CheckIndexCoverage and DetectGodObjects.                                *)
(***************************************************************************)
\* a Go string given as its sequence of characters, as the string itself
RECURSIVE Str(_)
Str(chars) == IF chars = <<>> THEN "" ELSE Head(chars) \o Str(Tail(chars))

\* the index test that looks at the first column only
CoversPrefix_FirstColumn(idx, fkCols) ==
    /\ Len(idx) >= 1
    /\ idx[1] = fkCols[1]

\* if len(idx) < len(fkCols) { continue }; match := every idx[i] == col
CoversPrefix(idx, fkCols) ==
    /\ ~(Len(idx) < Len(fkCols))
    /\ \A i \in DOMAIN fkCols : idx[i] = fkCols[i]

\* for _, idx := range srcNode.Indexes { ...; if match { isIndexed = true; break } }
IsIndexed(indexes, fkCols) == \E k \in DOMAIN indexes : CoversPrefix(indexes[k], fkCols)

\* fmt.Sprintf("%s (%s) -> %s", edge.SourceID, fkColsStr, edge.TargetID)
MissingEntry(edge, fkColsStr) ==
    edge.SourceID \o " (" \o Str(fkColsStr) \o ") -> " \o edge.TargetID

\* the body of the edge loop that files a foreign key without column list as missing
CoverageStep_SkippedAsMissing(G, issues, edge) ==
    IF edge.Type # ForeignKey THEN issues
    ELSE LET i1        == [issues EXCEPT !.TotalFKs = @ + 1]
             fkColsStr == MapGet(edge.MetaData, "fk_columns", <<>>)
         IN  IF edge.SourceID \notin DOMAIN G.Nodes THEN i1
             ELSE IF "fk_columns" \in DOMAIN edge.MetaData /\ fkColsStr # <<>>
                     /\ IsIndexed(G.Nodes[edge.SourceID].Indexes, Split(fkColsStr, ","))
             THEN [i1 EXCEPT !.IndexedFKs = @ + 1]
             ELSE [i1 EXCEPT !.MissingFKIndexes = Append(@, MissingEntry(edge, fkColsStr))]

\* the body of the edge loop of CheckIndexCoverage
CoverageStep(G, issues, edge) ==
    IF edge.Type # ForeignKey THEN issues
    ELSE LET i1        == [issues EXCEPT !.TotalFKs = @ + 1]
             fkColsStr == MapGet(edge.MetaData, "fk_columns", <<>>)
         IN  IF edge.SourceID \notin DOMAIN G.Nodes THEN i1
             ELSE IF "fk_columns" \notin DOMAIN edge.MetaData \/ fkColsStr = <<>> THEN i1
             ELSE IF IsIndexed(G.Nodes[edge.SourceID].Indexes, Split(fkColsStr, ","))
             THEN [i1 EXCEPT !.IndexedFKs = @ + 1]
             ELSE [i1 EXCEPT !.MissingFKIndexes = Append(@, MissingEntry(edge, fkColsStr))]

\* for _, edges := range g.Edges { for _, edge := range edges { ... } }
RECURSIVE CheckIndexCoverageLoop(_, _, _)
CheckIndexCoverageLoop(G, pairs, issues) ==
    IF pairs = <<>> THEN issues
    ELSE CheckIndexCoverageLoop(G, Tail(pairs), CoverageStep(G, issues, Head(pairs).edge))

\* the issues CheckIndexCoverage returns for one delivery order of g.Edges
CheckIndexCoverage(G, edgeOrder) ==
    CheckIndexCoverageLoop(G, EdgesInOrder(G, edgeOrder),
                           [MissingFKIndexes |-> <<>>, TotalFKs |-> 0, IndexedFKs |-> 0])

GodThreshold == 15

\* outDegree[src] += len(edges)
GodOutDegrees(G) == [src \in DOMAIN G.Edges |-> Len(G.Edges[src])]

\* for _, edge := range edges { inDegree[edge.TargetID]++ }
RECURSIVE GodInDegrees(_, _)
GodInDegrees(pairs, inDegree) ==
    IF pairs = <<>> THEN inDegree
    ELSE GodInDegrees(Tail(pairs),
                      MapPut(inDegree, Head(pairs).edge.TargetID,
                             MapGet(inDegree, Head(pairs).edge.TargetID, 0) + 1))

\* the node loop flagging a node only when total > threshold
RECURSIVE GodScan_Above(_, _, _, _)
GodScan_Above(order, inDegree, outDegree, gods) ==
    IF order = <<>> THEN gods
    ELSE LET id    == Head(order)
             in    == MapGet(inDegree, id, 0)
             out   == MapGet(outDegree, id, 0)
             total == in + out
         IN  GodScan_Above(Tail(order), inDegree, outDegree,
                 IF total > GodThreshold
                 THEN Append(gods, [ID |-> id, Degree |-> total,
                                    Dependents |-> in, Dependencies |-> out])
                 ELSE gods)

\* for id := range g.Nodes { ...; if total >= threshold { gods = append(gods, ...) } }
RECURSIVE GodScan(_, _, _, _)
GodScan(order, inDegree, outDegree, gods) ==
    IF order = <<>> THEN gods
    ELSE LET id    == Head(order)
             in    == MapGet(inDegree, id, 0)
             out   == MapGet(outDegree, id, 0)
             total == in + out
         IN  GodScan(Tail(order), inDegree, outDegree,
                 IF total >= GodThreshold
                 THEN Append(gods, [ID |-> id, Degree |-> total,
                                    Dependents |-> in, Dependencies |-> out])
                 ELSE gods)

\* the gods DetectGodObjects returns for one delivery order of g.Nodes
DetectGodObjects(G, nodeOrder) ==
    GodScan(nodeOrder,
            GodInDegrees(EdgesInOrder(G, AnyOrder(DOMAIN G.Edges)), EmptyMap),
            GodOutDegrees(G), <<>>)

(***************************************************************************)
(* The steps of PostgresAdapter.FetchSchema that add foreign keys and view *)
(* dependencies.                                                           *)
(***************************************************************************)
\* strings.Join(elems, sep) on strings given as sequences of characters
RECURSIVE Join(_, _)
Join(elems, sep) ==
    IF elems = <<>> THEN <<>>
    ELSE IF Len(elems) = 1 THEN elems[1]
    ELSE elems[1] \o <<sep>> \o Join(Tail(elems), sep)

\* one row of queryFetchForeignKeys: both nodes, the edge, then fk_columns on the
\* last edge of the source
FetchForeignKey(G, schema, table, fSchema, fTable, constraintName, deleteRule, fkCols) ==
    LET G1    == AddNode(G, schema, table, Table, "", 0)
        G2    == AddNode(G1, fSchema, fTable, Table, "", 0)
        G3    == AddEdge(G2, schema, table, fSchema, fTable, ForeignKey,
                         constraintName, deleteRule)
        srcID == NodeID(schema, table)
        edges == MapGet(G3.Edges, srcID, <<>>)
    IN  IF Len(edges) > 0
        THEN [G3 EXCEPT !.Edges[srcID][Len(edges)].MetaData =
                            MapPut(@, "fk_columns", Join(fkCols, ","))]
        ELSE G3

\* the view edge vSchema.vName -> tSchema.tName is already stored: viewEdges[edgeKey]
ViewEdgeSeen(G, vSchema, vName, tSchema, tName) ==
    /\ NodeID(vSchema, vName) \in DOMAIN G.Edges
    /\ \E i \in DOMAIN G.Edges[NodeID(vSchema, vName)] :
           /\ G.Edges[NodeID(vSchema, vName)][i].Type = ViewDepends
           /\ G.Edges[NodeID(vSchema, vName)][i].TargetID = NodeID(tSchema, tName)

\* one row of queryFetchViews: the view node, the target node, the edge unless seen
FetchView(G, vSchema, vName, tSchema, tName) ==
    LET G1 == AddNode(G, vSchema, vName, View, "", 0)
        G2 == AddNode(G1, tSchema, tName, Table, "", 0)
    IN  IF ViewEdgeSeen(G, vSchema, vName, tSchema, tName) THEN G2
        ELSE AddEdge(G2, vSchema, vName, tSchema, tName, ViewDepends, "", "")

(***************************************************************************)
(* The calls of the construction phase.                                    *)
(***************************************************************************)
CallAddNode(schema, name, nodeType, size, rowCount) ==
    /\ g' = AddNode(g, schema, name, nodeType, size, rowCount)
    /\ ret' = [op |-> "AddNode", id |-> NodeID(schema, name),
               existed |-> NodeID(schema, name) \in DOMAIN g.Nodes]
    /\ UNCHANGED adapter

CallAddIndex(schema, name, columns) ==
    /\ NumIndexes(g) < MaxIndexes
    /\ g' = AddIndex(g, schema, name, columns)
    /\ ret' = [op |-> "AddIndex"]
    /\ UNCHANGED adapter

CallAddEdge(ss, sn, ts, tn, kind) ==
    /\ g' = AddEdge(g, ss, sn, ts, tn, kind[1], kind[2], kind[3])
    /\ ret' = [op |-> "AddEdge"]
    /\ UNCHANGED adapter

Init ==
    /\ g = NewGraph
    /\ ret = NoRet
    /\ adapter = NoAdapter

Next ==
    \/ \E s \in Schemas, n \in Names, t \in NodeTypes, sz \in Sizes, rc \in RowCounts :
           CallAddNode(s, n, t, sz, rc)
    \/ \E s \in Schemas, n \in Names, cols \in IndexColumns : CallAddIndex(s, n, cols)
    \/ \E ss \in Schemas, sn \in Names, ts \in Schemas, tn \in Names, k \in EdgeKinds :
           /\ NumEdges(g) < MaxEdges
           /\ CallAddEdge(ss, sn, ts, tn, k)

Spec == Init /\ [][Next]_vars

(***************************************************************************)
(* The analysis phase: the graph is built from plain nodes and edges and   *)
(* the analyses are called on it.                                          *)
(***************************************************************************)
TopoIDs == {NodeID(s, n) : s \in Schemas, n \in TopoNames}

\* impacted := make([]string, 0, len(impactedMap)); for id := range impactedMap { append }
CallGetDownstream(nodeID) ==
    \E edgeOrder \in Perms(DOMAIN g.Edges) :
        LET st == GetDownstream(g, nodeID, edgeOrder) IN
        \E impacted \in Perms(st.impactedMap) :
            /\ ret' = [op |-> "GetDownstream", nodeID |-> nodeID, impacted |-> impacted,
                       steps |-> st.steps, done |-> st.done]
            /\ UNCHANGED <<g, adapter>>

CallAnalyzeTopology ==
    \E stats \in AnalyzeTopology(g) :
        /\ ret' = [op |-> "AnalyzeTopology", stats |-> stats]
        /\ UNCHANGED <<g, adapter>>

CallCheckCycles ==
    \E nodeOrder \in Perms(DOMAIN g.Nodes) :
        LET st == CheckCycles(g, nodeOrder) IN
        /\ ret' = [op |-> "CheckCycles", sccs |-> st.sccs, done |-> st.done]
        /\ UNCHANGED <<g, adapter>>

\* the impact command leaving a mark on the node it was asked about
CallImpact_MarksTarget(targetID) ==
    \E edgeOrder \in Perms(DOMAIN g.Edges) :
        /\ ret' = [op |-> "Impact", target |-> targetID,
                   report |-> Impact(g, targetID, edgeOrder)]
        /\ g' = [g EXCEPT !.Nodes[targetID].Size = "visited"]
        /\ UNCHANGED adapter

\* the impact command once the graph is built and targetID was found in g.Nodes
CallImpact(targetID) ==
    \E edgeOrder \in Perms(DOMAIN g.Edges) :
        /\ ret' = [op |-> "Impact", target |-> targetID,
                   report |-> Impact(g, targetID, edgeOrder)]
        /\ UNCHANGED <<g, adapter>>

NextAnalysis ==
    \/ \E s \in Schemas, n \in TopoNames : CallAddNode(s, n, Table, "", 0)
    \/ \E ss \in Schemas, sn \in TopoNames, ts \in Schemas, tn \in TopoNames, k \in EdgeKinds :
           /\ NumEdges(g) < MaxTopoEdges
           /\ CallAddEdge(ss, sn, ts, tn, k)
    \/ \E id \in TopoIDs : CallGetDownstream(id)
    \/ CallAnalyzeTopology
    \/ CallCheckCycles
    \/ \E id \in DOMAIN g.Nodes : CallImpact(id)

SpecAnalysis == Init /\ [][NextAnalysis]_vars

(***************************************************************************)
(* The index-hygiene check on a schema with indexes, foreign keys with     *)
(* their column lists and a view dependency.                               *)
(***************************************************************************)
MaxIndexRows == 2

MaxCoverageEdges == 3

\* column names as sequences of characters; the last one holds a comma
ColA == <<"a">>

ColB == <<"b">>

ColAB == <<"a", ",", "b">>

\* rows of queryFetchIndexes: <<table, columns>>
IndexRows == {<<"B", <<ColA>>>>, <<"B", <<ColB, ColA>>>>, <<"B", <<ColA, ColB>>>>,
              <<"A", <<ColA, ColB>>>>}

\* rows of queryFetchForeignKeys: <<table, foreign table, delete rule, fk_columns>>
CoverageFKRows == {<<"B", "A", "CASCADE", <<>>>>, <<"B", "A", "CASCADE", <<ColA>>>>,
                   <<"B", "A", "CASCADE", <<ColA, ColB>>>>, <<"B", "A", "CASCADE", <<ColAB>>>>,
                   <<"A", "B", "NO ACTION", <<ColA>>>>}

\* rows of queryFetchViews: <<view, table>>
CoverageViewRows == {<<"V", "B">>}

CallFetchIndex(row) ==
    /\ g' = AddIndex(g, "public", row[1], row[2])
    /\ ret' = [op |-> "AddIndex"]
    /\ UNCHANGED adapter

CallFetchForeignKey(row) ==
    /\ g' = FetchForeignKey(g, "public", row[1], "public", row[2], "fk", row[3], row[4])
    /\ ret' = [op |-> "FetchForeignKey"]
    /\ UNCHANGED adapter

CallFetchView(row) ==
    /\ g' = FetchView(g, "public", row[1], "public", row[2])
    /\ ret' = [op |-> "FetchView"]
    /\ UNCHANGED adapter

CallCheckIndexCoverage ==
    \E edgeOrder \in Perms(DOMAIN g.Edges) :
        /\ ret' = [op |-> "CheckIndexCoverage", issues |-> CheckIndexCoverage(g, edgeOrder)]
        /\ UNCHANGED <<g, adapter>>

NextIndex ==
    \/ \E row \in IndexRows : NumIndexes(g) < MaxIndexRows /\ CallFetchIndex(row)
    \/ \E row \in CoverageFKRows : NumEdges(g) < MaxCoverageEdges /\ CallFetchForeignKey(row)
    \/ \E row \in CoverageViewRows : NumEdges(g) < MaxCoverageEdges /\ CallFetchView(row)
    \/ CallCheckIndexCoverage

SpecIndex == Init /\ [][NextIndex]_vars

(***************************************************************************)
(* The impact command on a schema with indexes and foreign keys with their *)
(* column lists.                                                           *)
(***************************************************************************)
\* rows of queryFetchIndexes: <<table, columns>>
WarnIndexRows == {<<"B", <<ColB, ColA>>>>, <<"B", <<ColA>>>>, <<"C", <<ColA>>>>}

\* rows of queryFetchForeignKeys: <<table, foreign table, delete rule, fk_columns>>
WarnFKRows == {<<"B", "A", "CASCADE", <<ColA, ColB>>>>, <<"B", "A", "CASCADE", <<>>>>,
               <<"C", "A", "NO ACTION", <<ColA>>>>, <<"A", "C", "NO ACTION", <<ColA>>>>}

NextWarn ==
    \/ \E row \in WarnIndexRows : NumIndexes(g) < MaxIndexRows /\ CallFetchIndex(row)
    \/ \E row \in WarnFKRows : NumEdges(g) < MaxCoverageEdges /\ CallFetchForeignKey(row)
    \/ \E id \in DOMAIN g.Nodes : CallImpact(id)

SpecWarn == Init /\ [][NextWarn]_vars

(***************************************************************************)
(* The coupling detector on a schema with many foreign keys between three  *)
(* tables.                                                                 *)
(***************************************************************************)
MaxGodEdges == 15

\* <<table, foreign table>> of the foreign keys
GodEdges == {<<"A", "B">>, <<"B", "A">>, <<"C", "A">>}

CallDetectGodObjects ==
    \E nodeOrder \in Perms(DOMAIN g.Nodes) :
        /\ ret' = [op |-> "DetectGodObjects", gods |-> DetectGodObjects(g, nodeOrder)]
        /\ UNCHANGED <<g, adapter>>

NextGod ==
    \/ \E e \in GodEdges, k \in EdgeKinds :
           /\ NumEdges(g) < MaxGodEdges
           /\ CallAddEdge("public", e[1], "public", e[2], k)
    \/ CallDetectGodObjects

SpecGod == Init /\ [][NextGod]_vars

(***************************************************************************)
(* The impact command on a schema of tables with row counts, foreign keys  *)
(* with delete rules and views.                                            *)
(***************************************************************************)
MaxImpactEdges == 3

\* rows of queryFetchNodes: <<name, type, size, row count>>
ImpactNodeRows == {<<"A", Table, "16MB", 2000>>, <<"B", Table, "8kB", 500>>}

\* rows of queryFetchForeignKeys: <<table, foreign table, delete rule, fk_columns>>
ImpactFKRows == {<<"B", "A", "CASCADE", <<ColA>>>>, <<"A", "B", "CASCADE", <<ColA>>>>,
                 <<"C", "B", "NO ACTION", <<ColA>>>>}

\* rows of queryFetchViews: <<view, table>>
ImpactViewRows == {<<"V", "A">>, <<"V", "B">>, <<"V", "C">>}

NextImpact ==
    \/ \E row \in ImpactNodeRows : CallAddNode("public", row[1], row[2], row[3], row[4])
    \/ \E row \in ImpactFKRows : NumEdges(g) < MaxImpactEdges /\ CallFetchForeignKey(row)
    \/ \E row \in ImpactViewRows : NumEdges(g) < MaxImpactEdges /\ CallFetchView(row)
    \/ \E id \in DOMAIN g.Nodes : CallImpact(id)

SpecImpact == Init /\ [][NextImpact]_vars

(***************************************************************************)
(* Every analysis on one graph: foreign keys and indexes are fetched, then *)
(* the analyses are called in any order and any number of times.           *)
(***************************************************************************)
MaxFrameEdges == 2

\* the index hygiene section of the analyze command: the line it prints, the
\* number in it, and the entries listed under it (at most five, then "... and N more")
IndexHygiene(idxStats) ==
    IF Len(idxStats.MissingFKIndexes) > 0
    THEN [line |-> "PERFORMANCE RISKS: Found N FKs missing indexes",
          n |-> Len(idxStats.MissingFKIndexes),
          listed |-> SubSeq(idxStats.MissingFKIndexes, 1,
                            IF Len(idxStats.MissingFKIndexes) > 5 THEN 5
                            ELSE Len(idxStats.MissingFKIndexes)),
          more |-> IF Len(idxStats.MissingFKIndexes) > 5
                   THEN Len(idxStats.MissingFKIndexes) - 5 ELSE 0]
    ELSE IF idxStats.TotalFKs > 0
    THEN [line |-> "Index Hygiene: Excellent! All N FKs are indexed.",
          n |-> idxStats.TotalFKs, listed |-> <<>>, more |-> 0]
    ELSE [line |-> "No Foreign Keys found to check.", n |-> 0, listed |-> <<>>, more |-> 0]

\* idxStats := g.CheckIndexCoverage() and the lines printed from it
CallIndexHygiene ==
    \E edgeOrder \in Perms(DOMAIN g.Edges) :
        LET idxStats == CheckIndexCoverage(g, edgeOrder) IN
        /\ ret' = [op |-> "IndexHygiene", issues |-> idxStats, hygiene |-> IndexHygiene(idxStats)]
        /\ UNCHANGED <<g, adapter>>

NextFrame ==
    \/ \E row \in WarnIndexRows : NumIndexes(g) < MaxIndexes /\ CallFetchIndex(row)
    \/ \E row \in WarnFKRows : NumEdges(g) < MaxFrameEdges /\ CallFetchForeignKey(row)
    \/ \E id \in DOMAIN g.Nodes : CallGetDownstream(id)
    \/ CallAnalyzeTopology
    \/ CallCheckCycles
    \/ CallCheckIndexCoverage
    \/ CallDetectGodObjects
    \/ CallIndexHygiene
    \/ \E id \in DOMAIN g.Nodes : CallImpact(id)

SpecFrame == Init /\ [][NextFrame]_vars

(***************************************************************************)
(* The adapter: NewAdapter, Connect, GetMetrics and TraceQuery.  Strings    *)
(* whose characters are looked at (connection strings, the saturation) are  *)
(* sequences of characters.  A nil pointer is <<>>, a pointer to x is <<x>>.*)
(***************************************************************************)
MaxPlanChildren == 2
MaxUsedConns == 120

NilErr == "nil"

SeqsUpTo(S, n) == UNION {[1..k -> S] : k \in 0..n}

\* strings.HasPrefix
HasPrefix(s, prefix) ==
    /\ Len(s) >= Len(prefix)
    /\ SubSeq(s, 1, Len(prefix)) = prefix

PostgresScheme == <<"p", "o", "s", "t", "g", "r", "e", "s", ":", "/", "/">>

PostgresqlScheme == <<"p", "o", "s", "t", "g", "r", "e", "s", "q", "l", ":", "/", "/">>

NewPostgresAdapter == [kind |-> "postgres", Pool |-> "nil"]

\* the adapter for every connection string that has a scheme separator
NewAdapter_AnyScheme(connString) ==
    IF \E i \in 1..Len(connString) : HasPrefix(SubSeq(connString, i, Len(connString)), <<":", "/", "/">>)
    THEN [adapter |-> NewPostgresAdapter, err |-> NilErr]
    ELSE [adapter |-> NoAdapter, err |-> "unsupported database scheme in connection string"]

NewAdapter(connString) ==
    IF HasPrefix(connString, PostgresScheme) \/ HasPrefix(connString, PostgresqlScheme)
    THEN [adapter |-> NewPostgresAdapter, err |-> NilErr]
    ELSE [adapter |-> NoAdapter, err |-> "unsupported database scheme in connection string"]

\* p.Pool, err = pgxpool.New(...): the pool on success, nil and the error otherwise
Connect(a, ok) ==
    IF ok THEN [adapter |-> [a EXCEPT !.Pool = "open"], err |-> NilErr]
    ELSE [adapter |-> [a EXCEPT !.Pool = "nil"], err |-> "connect failed"]

\* ---- GetMetrics and the saturation label of the impact report ----
Digits == <<"0", "1", "2", "3", "4", "5", "6", "7", "8", "9">>

\* fmt.Sprintf("%d", n) for n >= 0
RECURSIVE Itoa(_)
Itoa(n) == IF n < 10 THEN <<Digits[n + 1]>> ELSE Itoa(n \div 10) \o <<Digits[(n % 10) + 1]>>

\* the byte of a character of a saturation string
Byte(c) == IF c = "%" THEN 37 ELSE 47 + (CHOOSE i \in 1..10 : Digits[i] = c)

\* Go's a > b on strings: bytewise lexicographic
RECURSIVE StringGreater(_, _)
StringGreater(a, b) ==
    IF a = <<>> THEN FALSE
    ELSE IF b = <<>> THEN TRUE
    ELSE IF Byte(Head(a)) # Byte(Head(b)) THEN Byte(Head(a)) > Byte(Head(b))
    ELSE StringGreater(Tail(a), Tail(b))

\* strings.TrimSuffix
TrimSuffix(s, suffix) ==
    IF Len(s) >= Len(suffix) /\ SubSeq(s, Len(s) - Len(suffix) + 1, Len(s)) = suffix
    THEN SubSeq(s, 1, Len(s) - Len(suffix))
    ELSE s

\* the pairs <<UsedConns, MaxConns>> of the input domain for which the float64
\* quotient times 100 falls just below the exact percentage (0.29 * 100 is
\* 28.999999999999996), so that int() truncates to one less
PercentShortfall ==
    {<<29, 100>>, <<57, 100>>, <<58, 100>>, <<113, 100>>, <<114, 100>>, <<115, 100>>, <<116, 100>>}

\* int(float64(m.UsedConns) / float64(m.MaxConns) * 100)
Percent(used, max) ==
    IF <<used, max>> \in PercentShortfall THEN ((used * 100) \div max) - 1
    ELSE (used * 100) \div max

FallbackMaxConns == 100

\* &graph.DBMetrics{}
EmptyMetrics == [MaxConns |-> 0, UsedConns |-> 0, ConnSaturation |-> <<>>]

\* reply: the outcome of the three queries; <<>> is a failed Scan, <<n>> the value
GetMetrics(a, reply) ==
    IF a.Pool = "nil" THEN [m |-> <<>>, err |-> "database connection not established"]
    ELSE IF ~reply.locksOk THEN [m |-> <<>>, err |-> "query failed"]
    ELSE LET maxConns == IF reply.maxConns = <<>> THEN FallbackMaxConns ELSE reply.maxConns[1] IN
         IF reply.usedConns = <<>> THEN [m |-> <<>>, err |-> "query failed"]
         ELSE LET usedConns == reply.usedConns[1] IN
              [m |-> <<[MaxConns |-> maxConns, UsedConns |-> usedConns,
                        ConnSaturation |-> IF maxConns > 0
                                           THEN Itoa(Percent(usedConns, maxConns)) \o <<"%">>
                                           ELSE <<>>]>>,
               err |-> NilErr]

\* metrics, err := a.GetMetrics(); if err != nil { metrics = &graph.DBMetrics{} }
ImpactMetrics(a, reply) ==
    LET r == GetMetrics(a, reply) IN IF r.err # NilErr THEN EmptyMetrics ELSE r.m[1]

SatLabel(metrics) ==
    IF StringGreater(TrimSuffix(metrics.ConnSaturation, <<"%">>), <<"8", "0">>)
    THEN "(High)" ELSE "(Low)"

\* ---- TraceQuery ----
PlanNode(hit, read, plans) ==
    [SharedHitBlocks |-> hit, SharedReadBlocks |-> read,
     LocalHitBlocks |-> 7, LocalReadBlocks |-> 6, TempReadBlocks |-> 5, TempWrittenBlocks |-> 9,
     Plans |-> plans]

\* walk: acc carries traceResult.CacheHits and traceResult.DiskReads
RECURSIVE walk(_, _), walkPlans(_, _, _)

\* the walk that adds the blocks of the node it is given and stops there
walk_SkipsChildren(node, acc) ==
    IF node = <<>> THEN acc
    ELSE [CacheHits |-> acc.CacheHits + node[1].SharedHitBlocks,
          DiskReads |-> acc.DiskReads + node[1].SharedReadBlocks]

walk(node, acc) ==
    IF node = <<>> THEN acc
    ELSE walkPlans(node[1].Plans, 1,
                   [CacheHits |-> acc.CacheHits + node[1].SharedHitBlocks,
                    DiskReads |-> acc.DiskReads + node[1].SharedReadBlocks])

\* for _, child := range node.Plans { walk(child) }
walkPlans(plans, i, acc) ==
    IF i > Len(plans) THEN acc
    ELSE walkPlans(plans, i + 1, walk(plans[i], acc))

SetTimeoutSQL == "SET local statement_timeout = '5000ms'"

SetWorkMemSQL == "SET local work_mem = '64MB'"

\* fmt.Sprintf("EXPLAIN (ANALYZE, BUFFERS, FORMAT JSON) %s", query)
TraceSQL(query) == "EXPLAIN (ANALYZE, BUFFERS, FORMAT JSON) " \o query

Sent(sql, ok) == [sql |-> sql, ok |-> ok]

\* defer tx.Rollback(ctx): what the transaction has seen when the call returns
Deferred(statements) == statements \o <<Sent("ROLLBACK", TRUE)>>

\* the return that leaves the transaction without rolling it back
TraceFail_NoRollback(statements, err) ==
    [result |-> <<>>, err |-> err, statements |-> statements]

TraceFail(statements, err) ==
    [result |-> <<>>, err |-> err, statements |-> Deferred(statements)]

\* after json.Unmarshal: explainParams holds the parsed output
TraceResultOf(statements, explainParams) ==
    IF Len(explainParams) = 0 THEN TraceFail(statements, "empty explain result")
    ELSE LET result == explainParams[1]
             root == result.Plan
             sums == walk(root, [CacheHits |-> 0, DiskReads |-> 0])
         IN  [result |-> <<[PlanningTime |-> result.PlanningTime,
                            ExecutionTime |-> result.ExecutionTime,
                            TotalTime |-> result.PlanningTime + result.ExecutionTime,
                            CacheHits |-> sums.CacheHits, DiskReads |-> sums.DiskReads,
                            Root |-> root]>>,
              err |-> NilErr, statements |-> Deferred(statements)]

\* db: what the server answers; db.failAt names the first call that fails
TraceQuery(a, query, db) ==
    IF a.Pool = "nil" THEN [result |-> <<>>, err |-> "database connection not established", statements |-> <<>>]
    ELSE IF db.failAt = "begin"
         THEN [result |-> <<>>, err |-> "failed to begin transaction for trace", statements |-> <<>>]
    ELSE LET s1 == <<Sent("BEGIN", TRUE)>>
             s2 == s1 \o <<Sent(SetTimeoutSQL, db.failAt # "timeout")>>
             s3 == s2 \o <<Sent(SetWorkMemSQL, db.failAt # "work_mem")>>
             s4 == s3 \o <<Sent(TraceSQL(query), db.failAt # "explain")>>
         IN  IF db.failAt = "timeout" THEN TraceFail(s2, "failed to set statement_timeout")
             ELSE IF db.failAt = "work_mem" THEN TraceFail(s3, "failed to set work_mem")
             ELSE IF db.failAt = "explain" THEN TraceFail(s4, "trace execution failed")
             ELSE IF db.failAt = "json" THEN TraceFail(s4, "failed to parse explain json")
             ELSE TraceResultOf(s4, db.output)

(***************************************************************************)
(* The commands that use the adapter.                                      *)
(***************************************************************************)
ConnStringTails == {<<>>, <<"d", "b">>}

ConnStrings ==
    {SubSeq(PostgresqlScheme, 1, k) \o t : k \in 0..Len(PostgresqlScheme), t \in ConnStringTails}
    \cup {PostgresScheme \o t : t \in ConnStringTails}
    \cup {<<"m", "y", "s", "q", "l", ":", "/", "/", "d", "b">>,
          <<"s", "q", "l", "i", "t", "e", ":", "/", "/", "d", "b">>,
          <<"i", "n", "v", "a", "l", "i", "d", "-", "s", "c", "h", "e", "m", "e">>,
          <<"P", "O", "S", "T", "G", "R", "E", "S", ":", "/", "/", "d", "b">>,
          <<" ">> \o PostgresScheme,
          <<"x", ":", "/", "/">> \o PostgresScheme}

\* the queries that pass the command's client-side check (SELECT or WITH)
Queries == {"SELECT 1", "WITH d AS (DELETE FROM t RETURNING id) SELECT id FROM d"}

PlanLeaves == {<<PlanNode(3, 0, <<>>)>>, <<PlanNode(2, 4, <<>>)>>}

PlanInner == {<<PlanNode(1, 1, kids)>> : kids \in SeqsUpTo(PlanLeaves \cup {<<>>}, 1)}

PlanRoots ==
    {<<>>} \cup {<<PlanNode(10, 1, kids)>> :
                    kids \in SeqsUpTo(PlanLeaves \cup PlanInner \cup {<<>>}, MaxPlanChildren)}

ExplainOutputs ==
    {<<>>} \cup {<<[Plan |-> p, PlanningTime |-> 1, ExecutionTime |-> 2]>> : p \in PlanRoots}

FailPoints == {"begin", "timeout", "work_mem", "explain", "json"}

\* the server's answers: a call that fails, or the JSON of a completed EXPLAIN
TraceReplies ==
    {[failAt |-> f, output |-> <<>>] : f \in FailPoints}
    \cup {[failAt |-> "none", output |-> o] : o \in ExplainOutputs}

MaxConnsReplies == {<<>>, <<0>>, <<100>>}

UsedConnsReplies == {<<>>} \cup {<<n>> : n \in 0..MaxUsedConns}

\* a, err := adapters.NewAdapter(dbUrl)
CallNewAdapter(connString) ==
    LET r == NewAdapter(connString) IN
    /\ adapter' = r.adapter
    /\ ret' = [op |-> "NewAdapter", connString |-> connString, adapter |-> r.adapter,
               err |-> r.err]
    /\ UNCHANGED g

\* a.Connect(dbUrl), reached only with the adapter NewAdapter returned
CallConnect(ok) ==
    /\ adapter.kind # "nil"
    /\ LET r == Connect(adapter, ok) IN
       /\ adapter' = r.adapter
       /\ ret' = [op |-> "Connect", err |-> r.err]
    /\ UNCHANGED g

\* the resource metrics of the impact report
CallImpactMetrics(reply) ==
    /\ adapter.kind # "nil"
    /\ LET metrics == ImpactMetrics(adapter, reply) IN
       ret' = [op |-> "ImpactMetrics", metrics |-> metrics, satLabel |-> SatLabel(metrics)]
    /\ UNCHANGED <<g, adapter>>

\* result, err := a.TraceQuery(traceQueryString)
CallTraceQuery(query, db) ==
    /\ adapter.kind # "nil"
    /\ LET r == TraceQuery(adapter, query, db) IN
       ret' = [op |-> "TraceQuery", query |-> query, result |-> r.result, err |-> r.err,
               statements |-> r.statements]
    /\ UNCHANGED <<g, adapter>>

NextAdapter ==
    \/ \E connString \in ConnStrings : CallNewAdapter(connString)
    \/ \E ok \in BOOLEAN : CallConnect(ok)
    \/ \E locksOk \in BOOLEAN, maxConns \in MaxConnsReplies, usedConns \in UsedConnsReplies :
           CallImpactMetrics([locksOk |-> locksOk, maxConns |-> maxConns, usedConns |-> usedConns])
    \/ \E query \in Queries, db \in TraceReplies : CallTraceQuery(query, db)

SpecAdapter == Init /\ [][NextAdapter]_vars

(***************************************************************************)
(* Properties of the construction phase.                                   *)
(***************************************************************************)
\* C1: every stored edge has its SourceID and its TargetID among the keys of
\* Nodes and sits in the adjacency list keyed by its SourceID.
EdgeEndpointsExist ==
    \A src \in DOMAIN g.Edges : \A i \in DOMAIN g.Edges[src] :
        /\ g.Edges[src][i].SourceID \in DOMAIN g.Nodes
        /\ g.Edges[src][i].TargetID \in DOMAIN g.Nodes
        /\ g.Edges[src][i].SourceID = src

\* AddEdge has just stored an edge between two distinct nodes
EdgeEndpointsWitness ==
    /\ ret.op = "AddEdge"
    /\ \E src \in DOMAIN g.Edges : \E i \in DOMAIN g.Edges[src] :
           g.Edges[src][i].TargetID # src

\* C2: no call ever changes a node's non-empty Size or non-zero RowCount (a node
\* is never removed either); a call only fills a Size that was "" or a RowCount
\* that was 0, and AddNode on an existing id changes no other field.
SetValuesNeverChange ==
    [][\A id \in DOMAIN g.Nodes :
          /\ id \in DOMAIN g'.Nodes
          /\ g.Nodes[id].Size # "" => g'.Nodes[id].Size = g.Nodes[id].Size
          /\ g.Nodes[id].RowCount # 0 => g'.Nodes[id].RowCount = g.Nodes[id].RowCount
          /\ ret'.op = "AddNode" =>
                g'.Nodes[id] = [g.Nodes[id] EXCEPT !.Size = g'.Nodes[id].Size,
                                                   !.RowCount = g'.Nodes[id].RowCount]]_vars

\* AddNode has just been called on an id that already held a size and a row count
SetValuesWitness ==
    /\ ret.op = "AddNode"
    /\ ret.existed
    /\ g.Nodes[ret.id].Size = "8kB"
    /\ g.Nodes[ret.id].RowCount = 500

(***************************************************************************)
(* Graph-theoretic notions the properties are stated with.                 *)
(***************************************************************************)
NodeSet == DOMAIN g.Nodes

HasEdge(a, b) ==
    /\ a \in DOMAIN g.Edges
    /\ \E i \in DOMAIN g.Edges[a] : g.Edges[a][i].TargetID = b

\* the sequences of k + 1 nodes joined by k consecutive edges
Walks(k) == {p \in [1..(k + 1) -> NodeSet] : \A i \in 1..k : HasEdge(p[i], p[i + 1])}

\* b is reached from a along one or more edges
Reaches(a, b) ==
    \E k \in 1..Cardinality(NodeSet) : \E p \in Walks(k) : p[1] = a /\ p[k + 1] = b

NoDuplicates(s) == \A i, j \in DOMAIN s : s[i] = s[j] => i = j

Acyclic == \A n \in NodeSet : ~Reaches(n, n)

\* the directed paths that visit no node twice, as sequences of nodes
SimplePaths ==
    UNION {{p \in [1..k -> NodeSet] :
               /\ \A i, j \in 1..k : p[i] = p[j] => i = j
               /\ \A i \in 1..(k - 1) : HasEdge(p[i], p[i + 1])} :
           k \in 1..Cardinality(NodeSet)}

\* the number of nodes on a longest such path, 0 for the empty graph
LongestSimplePath ==
    IF NodeSet = {} THEN 0
    ELSE CHOOSE k \in 1..Cardinality(NodeSet) :
             /\ \E p \in SimplePaths : Len(p) = k
             /\ \A p \in SimplePaths : Len(p) <= k

\* the edges as (source, position) pairs
EdgeSlots == UNION {{<<a, i>> : i \in DOMAIN g.Edges[a]} : a \in DOMAIN g.Edges}

InDeg(n) == Cardinality({sl \in EdgeSlots : g.Edges[sl[1]][sl[2]].TargetID = n})

OutDeg(n) == Cardinality({sl \in EdgeSlots : sl[1] = n})

MaxDeg == CHOOSE d \in 0..(2 * Cardinality(EdgeSlots)) :
              /\ \E n \in NodeSet : InDeg(n) + OutDeg(n) = d
              /\ \A n \in NodeSet : InDeg(n) + OutDeg(n) <= d

(***************************************************************************)
(* Properties of the analyses.                                             *)
(***************************************************************************)
\* C3: GetDownstream(x) returns, without duplicates, exactly the nodes other
\* than x from which x is reached along one or more edges.
DownstreamIsReverseReachability ==
    ret.op = "GetDownstream" =>
        /\ NoDuplicates(ret.impacted)
        /\ Range(ret.impacted) = {n \in NodeSet \ {ret.nodeID} : Reaches(n, ret.nodeID)}

\* GetDownstream of a node on a cycle that also has a transitive dependent and
\* a dependency outside the result
DownstreamWitness ==
    /\ ret.op = "GetDownstream"
    /\ Reaches(ret.nodeID, ret.nodeID)
    /\ Len(ret.impacted) >= 1
    /\ \E n \in NodeSet \ Range(ret.impacted) : n # ret.nodeID /\ Reaches(ret.nodeID, n)

\* the strongly connected component of n
SCC(n) == {n} \cup {m \in NodeSet : Reaches(n, m) /\ Reaches(m, n)}

\* the components that are cycles: more than one node, or one node with a self-loop
CyclicSCCs == {SCC(n) : n \in {m \in NodeSet : Reaches(m, m)}}

\* C4: CheckCycles returns each strongly connected component that has more
\* than one node or a self-loop exactly once, with exactly its nodes, and
\* nothing else.
CyclesAreCyclicSCCs ==
    ret.op = "CheckCycles" =>
        /\ {Range(ret.sccs[i]) : i \in DOMAIN ret.sccs} = CyclicSCCs
        /\ Len(ret.sccs) = Cardinality(CyclicSCCs)
        /\ \A i \in DOMAIN ret.sccs : NoDuplicates(ret.sccs[i])

\* CheckCycles on a graph with a two-node cycle and a separate self-loop
CyclesWitness ==
    /\ ret.op = "CheckCycles"
    /\ Len(ret.sccs) = 2
    /\ \E i, j \in DOMAIN ret.sccs : Len(ret.sccs[i]) = 2 /\ Len(ret.sccs[j]) = 1

\* C5: the reverse BFS of GetDownstream, the longest-chain DFS of
\* AnalyzeTopology, the Tarjan DFS of CheckCycles and the recursion of the
\* impact tree all run to completion; the BFS takes at most one step per node
\* and one for the start.
AnalysesTerminate ==
    /\ ret.op = "GetDownstream" =>
           ret.done /\ ret.steps <= Cardinality(NodeSet) + 1
    /\ ret.op = "AnalyzeTopology" => ret.stats.done
    /\ ret.op = "CheckCycles" => ret.done
    /\ ret.op = "Impact" => ret.report.done

\* the longest-chain DFS has run on a graph with a self-loop and a cycle through
\* two nodes
AnalysesTerminateWitness ==
    /\ ret.op = "AnalyzeTopology"
    /\ \E a, b \in NodeSet : a # b /\ HasEdge(a, a) /\ HasEdge(a, b) /\ HasEdge(b, a)

\* C6: on an acyclic graph LongestPath is the number of nodes on the longest
\* directed path (0 for the empty graph, 1 for a graph without edges).
LongestPathOnDag ==
    (ret.op = "AnalyzeTopology" /\ Acyclic) => ret.stats.LongestPath = LongestSimplePath

\* AnalyzeTopology on an acyclic graph holding a chain of three nodes
LongestPathOnDagWitness ==
    /\ ret.op = "AnalyzeTopology"
    /\ Acyclic
    /\ ret.stats.LongestPath = 3

\* C7: on a graph with a cycle LongestPath is at most the number of nodes.
LongestPathBounded ==
    (ret.op = "AnalyzeTopology" /\ ~Acyclic) =>
        /\ ret.stats.LongestPath >= 1
        /\ ret.stats.LongestPath <= Cardinality(NodeSet)

\* AnalyzeTopology on a chain of three nodes closed by a back-edge from the last
\* to the first
LongestPathBoundedWitness ==
    /\ ret.op = "AnalyzeTopology"
    /\ \E p \in SimplePaths : Len(p) = 3 /\ HasEdge(p[3], p[1])
    /\ ret.stats.LongestPath = 3

\* C8: LongestPath is the number of nodes on the longest directed path of the
\* graph, whatever the order of the DFS roots.
LongestPathIsGraphProperty ==
    ret.op = "AnalyzeTopology" => ret.stats.LongestPath = LongestSimplePath

\* C9: Edges is the number of stored edges; Density is Edges / (Nodes*(Nodes-1))
\* when Nodes > 1 and 0 when Nodes <= 1.
EdgesAndDensity ==
    ret.op = "AnalyzeTopology" =>
        LET n == Cardinality(NodeSet) IN
        /\ ret.stats.Nodes = n
        /\ ret.stats.Edges = Cardinality(EdgeSlots)
        /\ ret.stats.Density.den # 0
        /\ n > 1 => ret.stats.Density.num * (n * (n - 1))
                        = Cardinality(EdgeSlots) * ret.stats.Density.den
        /\ n <= 1 => ret.stats.Density.num = 0

\* AnalyzeTopology on a single node with two self-loops
EdgesAndDensityWitness ==
    /\ ret.op = "AnalyzeTopology"
    /\ Cardinality(NodeSet) = 1
    /\ ret.stats.Edges = 2

\* C10: on a graph with at least one node CentralNode is a node of maximal
\* in-degree plus out-degree and MaxCentrality is that degree.
CentralNodeIsMaxDegree ==
    (ret.op = "AnalyzeTopology" /\ NodeSet # {}) =>
        /\ ret.stats.CentralNode \in NodeSet
        /\ InDeg(ret.stats.CentralNode) + OutDeg(ret.stats.CentralNode) = MaxDeg
        /\ ret.stats.MaxCentrality = MaxDeg

(***************************************************************************)
(* Weak connectivity, for the properties of Components and IsolatedGroups. *)
(***************************************************************************)
Linked(a, b) == HasEdge(a, b) \/ HasEdge(b, a)

\* the nodes joined to a node of S by edges taken in either direction
RECURSIVE WeakClosure(_)
WeakClosure(S) ==
    LET T == S \cup {m \in NodeSet : \E s \in S : Linked(s, m)}
    IN  IF T = S THEN S ELSE WeakClosure(T)

WeakComponents == {WeakClosure({n}) : n \in NodeSet}

SmallComponents == {c \in WeakComponents : Cardinality(c) <= 2}

\* the entries that stand for a component of one or two nodes: the bare id of a
\* node without incident edge, the printed slice of the nodes otherwise
GroupEntries(c) ==
    IF \E n \in c : c = {n} /\ ~HasEdge(n, n) THEN c
    ELSE {FmtSlice(p) : p \in Perms(c)}

\* C11: TopNodes holds every node of the graph exactly once, each with its
\* in-degree, its out-degree and centrality = in + out, in order of
\* non-increasing centrality.
TopNodesIsFullRanking ==
    ret.op = "AnalyzeTopology" =>
        LET t == ret.stats.TopNodes IN
        /\ Len(t) = Cardinality(NodeSet)
        /\ {t[i].ID : i \in DOMAIN t} = NodeSet
        /\ \A i \in DOMAIN t :
               /\ t[i].InDegree = InDeg(t[i].ID)
               /\ t[i].OutDegree = OutDeg(t[i].ID)
               /\ t[i].Centrality = InDeg(t[i].ID) + OutDeg(t[i].ID)
        /\ \A i \in 1..(Len(t) - 1) : t[i].Centrality >= t[i + 1].Centrality

\* AnalyzeTopology has ranked three nodes of three different centralities
TopNodesWitness ==
    /\ ret.op = "AnalyzeTopology"
    /\ Len(ret.stats.TopNodes) = 3
    /\ ret.stats.TopNodes[1].Centrality > ret.stats.TopNodes[2].Centrality
    /\ ret.stats.TopNodes[2].Centrality > ret.stats.TopNodes[3].Centrality
    /\ ret.stats.TopNodes[1].InDegree > 0
    /\ ret.stats.TopNodes[1].OutDegree > 0

\* C12: Components is the number of weakly connected components of the graph,
\* a node without incident edge being a component of its own.
ComponentsAreWeakComponents ==
    ret.op = "AnalyzeTopology" => ret.stats.Components = Cardinality(WeakComponents)

\* AnalyzeTopology on two nodes joined by one edge next to a node without edges
ComponentsWitness ==
    /\ ret.op = "AnalyzeTopology"
    /\ ret.stats.Components = 2
    /\ Cardinality(NodeSet) = 3
    /\ Cardinality(EdgeSlots) = 1

\* C13: IsolatedGroups has exactly one entry for each weak component of one or
\* two nodes and no entry for a component of three or more nodes.
IsolatedGroupsAreSmallComponents ==
    ret.op = "AnalyzeTopology" =>
        LET iso == ret.stats.IsolatedGroups IN
        /\ Len(iso) = Cardinality(SmallComponents)
        /\ \A c \in SmallComponents :
               Cardinality({i \in DOMAIN iso : iso[i] \in GroupEntries(c)}) = 1
        /\ \A i \in DOMAIN iso : \E c \in SmallComponents : iso[i] \in GroupEntries(c)

\* AnalyzeTopology on a node with only a self-loop next to a pair joined by an edge
IsolatedGroupsWitness ==
    /\ ret.op = "AnalyzeTopology"
    /\ Len(ret.stats.IsolatedGroups) = 2
    /\ \E n \in NodeSet : HasEdge(n, n) /\ WeakClosure({n}) = {n}
    /\ \E c \in WeakComponents : Cardinality(c) = 2

(***************************************************************************)
(* Properties of the index-hygiene check.                                  *)
(***************************************************************************)
EdgeAt(sl) == g.Edges[sl[1]][sl[2]]

FKSlots == {sl \in EdgeSlots : EdgeAt(sl).Type = ForeignKey}

\* the foreign keys whose column list is known: fk_columns present and not ""
KnownFKSlots ==
    {sl \in FKSlots : /\ "fk_columns" \in DOMAIN EdgeAt(sl).MetaData
                      /\ EdgeAt(sl).MetaData["fk_columns"] # <<>>}

\* the column list of a foreign key as the check reads it from the metadata
FKColumns(sl) == Split(EdgeAt(sl).MetaData["fk_columns"], ",")

\* some index of the edge's source node starts with the foreign key's columns
HasCoveringIndex(sl) ==
    \E k \in DOMAIN g.Nodes[EdgeAt(sl).SourceID].Indexes :
        LET idx == g.Nodes[EdgeAt(sl).SourceID].Indexes[k] IN
        /\ Len(idx) >= Len(FKColumns(sl))
        /\ SubSeq(idx, 1, Len(FKColumns(sl))) = FKColumns(sl)

SkippedFKsAreNotCounted ==
    ret.op = "CheckIndexCoverage" =>
        /\ ret.issues.TotalFKs = Cardinality(FKSlots)
        /\ ret.issues.IndexedFKs + Len(ret.issues.MissingFKIndexes)
               = Cardinality(KnownFKSlots)
        /\ ret.issues.TotalFKs = ret.issues.IndexedFKs + Len(ret.issues.MissingFKIndexes)
                                     + Cardinality(FKSlots \ KnownFKSlots)

\* the check has run on a view edge, a foreign key whose column list is empty
\* and an indexed foreign key
SkippedFKsWitness ==
    /\ ret.op = "CheckIndexCoverage"
    /\ ret.issues.TotalFKs = 2
    /\ ret.issues.IndexedFKs = 1
    /\ ret.issues.MissingFKIndexes = <<>>
    /\ Cardinality(EdgeSlots) = 3
    /\ \E sl \in EdgeSlots : EdgeAt(sl).Type = ViewDepends

RECURSIVE TreeIDs(_), TreeIDsFrom(_, _)
TreeIDs(n) == <<n.ID>> \o TreeIDsFrom(n, 1)

TreeIDsFrom(n, i) ==
    IF i > Len(n.Children) THEN <<>>
    ELSE TreeIDs(n.Children[i]) \o TreeIDsFrom(n, i + 1)

\* the arrivals of the tree: a child, its parent, the edge it was attached over
\* and the depth it was placed at
RECURSIVE TreeArrivals(_)
TreeArrivals(n) ==
    UNION {{[parent |-> n.ID, child |-> n.Children[i].ID,
             edge |-> n.Children[i].EdgeMeta[1], depth |-> n.Children[i].Level]}
           \cup TreeArrivals(n.Children[i]) : i \in DOMAIN n.Children}

RECURSIVE SumValues(_, _)
SumValues(m, keys) ==
    IF keys = {} THEN 0
    ELSE LET k == CHOOSE x \in keys : TRUE
         IN  m[k] + SumValues(m, keys \ {k})

\* the indexes of the warnings of one kind about one child
WarningsAbout(report, kind, child) ==
    {i \in DOMAIN report.warnings :
        report.warnings[i].kind = kind /\ report.warnings[i].child = child}

\* C17: the impact tree holds each node at most once, its nodes below the root
\* are exactly GetDownstream(target), the total affected count is the size
\* of that set (the target is not counted) and the breakdown by type counts
\* the nodes of that set by their type, summing to the total.
TreeIsDownstream ==
    ret.op = "Impact" =>
        LET ids  == TreeIDs(ret.report.root)
            down == {n \in NodeSet \ {ret.target} : Reaches(n, ret.target)}
        IN  /\ NoDuplicates(ids)
            /\ ids[1] = ret.target
            /\ Range(Tail(ids)) = down
            /\ \A eo \in Perms(DOMAIN g.Edges) :
                   GetDownstream(g, ret.target, eo).impactedMap = Range(Tail(ids))
            /\ ret.report.totalAffected = Cardinality(down)
            /\ \A t \in DOMAIN ret.report.structures :
                   ret.report.structures[t]
                       = Cardinality({n \in down : g.Nodes[n].Type = t})
            /\ SumValues(ret.report.structures, DOMAIN ret.report.structures)
                   = ret.report.totalAffected

\* the tree of a table on a cycle of foreign keys that a view depends on
TreeIsDownstreamWitness ==
    /\ ret.op = "Impact"
    /\ Reaches(ret.target, ret.target)
    /\ ret.report.totalAffected = 2
    /\ DOMAIN ret.report.structures = {Table, View}

\* C18: a High cascade warning is produced for an arrival edge exactly when
\* the edge is a ForeignKey with delete rule CASCADE; an arrival edge of another
\* type produces none.
CascadeIffForeignKeyCascade ==
    ret.op = "Impact" =>
        /\ \A a \in TreeArrivals(ret.report.root) :
               Cardinality({i \in WarningsAbout(ret.report, "Cascade Delete", a.child) :
                               /\ ret.report.warnings[i].parent = a.parent
                               /\ ret.report.warnings[i].severity = "High"})
                   = IF a.edge.Type = ForeignKey /\ a.edge.DeleteRule = "CASCADE"
                     THEN 1 ELSE 0
        /\ \A i \in DOMAIN ret.report.warnings :
               ret.report.warnings[i].kind = "Cascade Delete" =>
                   \E a \in TreeArrivals(ret.report.root) :
                       /\ a.child = ret.report.warnings[i].child
                       /\ a.parent = ret.report.warnings[i].parent

\* a tree with a CASCADE foreign key, a NO ACTION foreign key and a view edge as
\* arrival edges
CascadeWitness ==
    /\ ret.op = "Impact"
    /\ \E a, b, c \in TreeArrivals(ret.report.root) :
           /\ a.edge.Type = ForeignKey /\ a.edge.DeleteRule = "CASCADE"
           /\ b.edge.Type = ForeignKey /\ b.edge.DeleteRule = "NO ACTION"
           /\ c.edge.Type = ViewDepends
    /\ Cardinality({i \in DOMAIN ret.report.warnings :
                       ret.report.warnings[i].kind = "Cascade Delete"}) = 1

\* C19: a cascade warning shows a row count exactly when the child (the source
\* of the arrival edge) has more than 1000 rows, and the count shown is the
\* child's.
CascadeRowsAreChildRows ==
    ret.op = "Impact" =>
        \A i \in DOMAIN ret.report.warnings :
            ret.report.warnings[i].kind = "Cascade Delete" =>
                ret.report.warnings[i].rows
                    = IF g.Nodes[ret.report.warnings[i].child].RowCount > 1000
                      THEN <<g.Nodes[ret.report.warnings[i].child].RowCount>>
                      ELSE <<>>

\* C20: a Medium view-coupling warning is produced for an arrival edge exactly
\* when the edge is a ViewDepends edge and the view it attaches is placed at
\* depth 2 or more.
ViewCouplingFromDepthTwo ==
    ret.op = "Impact" =>
        \A a \in TreeArrivals(ret.report.root) :
            Cardinality(WarningsAbout(ret.report, "View Coupling", a.child))
                = IF a.edge.Type = ViewDepends /\ a.depth >= 2 THEN 1 ELSE 0

(***************************************************************************)
(* Properties that relate the impact tree and the index-hygiene check.     *)
(***************************************************************************)
\* the edge is a ForeignKey whose fk_columns metadata is present and not ""
HasFKColumns(edge) ==
    /\ edge.Type = ForeignKey
    /\ "fk_columns" \in DOMAIN edge.MetaData
    /\ edge.MetaData["fk_columns"] # <<>>

\* C21: for a ForeignKey arrival edge with non-empty fk_columns the impact tree
\* produces one Medium missing-index warning exactly when CheckIndexCoverage
\* lists that edge among MissingFKIndexes; an arrival edge without column
\* metadata produces no missing-index warning.
MissingIndexWarningMatchesCoverage ==
    ret.op = "Impact" =>
        \A a \in TreeArrivals(ret.report.root) :
            LET about == WarningsAbout(ret.report, "Missing Index", a.child) IN
            /\ \A i \in about : ret.report.warnings[i].severity = "Med"
            /\ IF HasFKColumns(a.edge)
               THEN \A eo \in Perms(DOMAIN g.Edges) :
                        Cardinality(about)
                            = IF MissingEntry(a.edge, a.edge.MetaData["fk_columns"])
                                     \in Range(CheckIndexCoverage(g, eo).MissingFKIndexes)
                              THEN 1 ELSE 0
               ELSE about = {}

\* a tree with a foreign key covered by an index of two columns in the other
\* order only (warned) and a foreign key covered by a matching index (not warned)
MissingIndexWarningWitness ==
    /\ ret.op = "Impact"
    /\ \E a, b \in TreeArrivals(ret.report.root) :
           /\ HasFKColumns(a.edge) /\ HasFKColumns(b.edge)
           /\ g.Nodes[a.child].Indexes = <<<<ColB, ColA>>>>
           /\ WarningsAbout(ret.report, "Missing Index", a.child) # {}
           /\ g.Nodes[b.child].Indexes # <<>>
           /\ WarningsAbout(ret.report, "Missing Index", b.child) = {}

\* the nodes above c in the tree, given the arrivals of the tree
RECURSIVE TreeAncestors(_, _)
TreeAncestors(arrivals, c) ==
    LET ps == {a.parent : a \in {b \in arrivals : b.child = c}}
    IN  ps \cup UNION {TreeAncestors(arrivals, p) : p \in ps}

\* the indexes of the warnings produced for the arrival edge of child
ArrivalWarnings(report, child) ==
    {i \in DOMAIN report.warnings : report.warnings[i].child = child}

\* C22: the warnings are listed in discovery order: the warnings for a node's
\* arrival edge come before every warning for the arrival edge of a descendant
\* of that node.
WarningsInDiscoveryOrder ==
    ret.op = "Impact" =>
        \A a, d \in TreeArrivals(ret.report.root) :
            a.child \in TreeAncestors(TreeArrivals(ret.report.root), d.child) =>
                \A i \in ArrivalWarnings(ret.report, a.child) :
                    \A j \in ArrivalWarnings(ret.report, d.child) : i < j

(***************************************************************************)
(* Properties of the adapter.                                              *)
(***************************************************************************)
\* the positions of the nodes of a plan: the child indexes from the root down
RECURSIVE PlanPaths(_)
PlanPaths(node) ==
    IF node = <<>> THEN {}
    ELSE {<<>>} \cup UNION {{<<i>> \o p : p \in PlanPaths(node[1].Plans[i])} :
                               i \in DOMAIN node[1].Plans}

RECURSIVE PlanAt(_, _)
PlanAt(node, path) ==
    IF path = <<>> THEN node[1] ELSE PlanAt(node[1].Plans[Head(path)], Tail(path))

\* the sum of one counter over a set of positions
RECURSIVE SumCounter(_, _, _)
SumCounter(node, paths, counter) ==
    IF paths = {} THEN 0
    ELSE LET p == CHOOSE x \in paths : TRUE
         IN  PlanAt(node, p)[counter] + SumCounter(node, paths \ {p}, counter)

\* the same plan with the children of the root in another order
Reordered(node, order) ==
    <<[node[1] EXCEPT !.Plans = [i \in DOMAIN node[1].Plans |-> node[1].Plans[order[i]]]]>>

\* C23: a trace that succeeds reports as CacheHits the sum of SharedHitBlocks and
\* as DiskReads the sum of SharedReadBlocks over the nodes of the plan, each
\* node once and no other counter, whatever the order of the children; a nil
\* plan gives 0 and 0.
PlanAggregationSumsSharedBlocks ==
    (ret.op = "TraceQuery" /\ ret.err = NilErr) =>
        LET result == ret.result[1]
            root == result.Root
        IN  /\ result.CacheHits = SumCounter(root, PlanPaths(root), "SharedHitBlocks")
            /\ result.DiskReads = SumCounter(root, PlanPaths(root), "SharedReadBlocks")
            /\ root = <<>> => (result.CacheHits = 0 /\ result.DiskReads = 0)
            /\ root # <<>> =>
                   \A order \in Perms(DOMAIN root[1].Plans) :
                       walk(Reordered(root, order), [CacheHits |-> 0, DiskReads |-> 0])
                           = [CacheHits |-> result.CacheHits, DiskReads |-> result.DiskReads]

\* a root with shared blocks 10 and 1 and two leaves with 3, 0 and 2, 4 aggregates to 15 and 5
PlanAggregationWitness ==
    /\ ret.op = "TraceQuery" /\ ret.err = NilErr
    /\ ret.result[1].Root # <<>>
    /\ Len(ret.result[1].Root[1].Plans) = 2
    /\ \A i \in 1..2 : ret.result[1].Root[1].Plans[i] # <<>>
    /\ ret.result[1].Root[1].Plans[1][1].SharedHitBlocks = 3
    /\ ret.result[1].Root[1].Plans[2][1].SharedHitBlocks = 2
    /\ \A i \in 1..2 : ret.result[1].Root[1].Plans[i][1].Plans = <<>>
    /\ ret.result[1].CacheHits = 15
    /\ ret.result[1].DiskReads = 5

(***************************************************************************)
(* Frame of the analyses.                                                  *)
(***************************************************************************)
AnalysisOps ==
    {"GetDownstream", "AnalyzeTopology", "CheckCycles", "CheckIndexCoverage",
     "IndexHygiene", "DetectGodObjects", "Impact"}

EdgeBag(edges) == [e \in Range(edges) |-> Cardinality({i \in DOMAIN edges : edges[i] = e})]

\* the same node ids with the same type, size and row count, and the same
\* multiset of edges under every source id
SameGraph(G1, G2) ==
    /\ DOMAIN G1.Nodes = DOMAIN G2.Nodes
    /\ \A id \in DOMAIN G1.Nodes :
           /\ G1.Nodes[id].Type = G2.Nodes[id].Type
           /\ G1.Nodes[id].Size = G2.Nodes[id].Size
           /\ G1.Nodes[id].RowCount = G2.Nodes[id].RowCount
    /\ DOMAIN G1.Edges = DOMAIN G2.Edges
    /\ \A src \in DOMAIN G1.Edges : EdgeBag(G1.Edges[src]) = EdgeBag(G2.Edges[src])

\* C25: on every graph, an AddEdge followed by the AddNode of one of its
\* endpoints gives the same graph as that AddNode followed by the AddEdge.
EdgeInsertionOrderIndependent ==
    \A s \in Schemas, n \in Names, t \in NodeTypes, sz \in Sizes, rc \in RowCounts :
        \A ts \in Schemas, tn \in Names, k \in EdgeKinds :
            SameGraph(AddNode(AddEdge(g, s, n, ts, tn, k[1], k[2], k[3]), s, n, t, sz, rc),
                      AddEdge(AddNode(g, s, n, t, sz, rc), s, n, ts, tn, k[1], k[2], k[3]))

(***************************************************************************)
(* Properties of the trace transaction.                                    *)
(***************************************************************************)
\* the positions at which the transaction was sent the EXPLAIN of the user's query
ExplainPositions ==
    {i \in DOMAIN ret.statements : ret.statements[i].sql = TraceSQL(ret.query)}

\* C26: in a trace, the EXPLAIN ANALYZE of the user's query is preceded, in its
\* transaction, by a SET TRANSACTION READ ONLY that succeeded.
TraceTransactionIsReadOnly ==
    ret.op = "TraceQuery" =>
        \A i \in ExplainPositions :
            \E j \in 1..(i - 1) : ret.statements[j] = Sent("SET TRANSACTION READ ONLY", TRUE)

\* C28: a trace never sends COMMIT; once BEGIN succeeded the last thing the
\* transaction sees is a ROLLBACK, whether the call fails at a SET LOCAL, at the
\* EXPLAIN, at the JSON, on an empty result, or succeeds; and the EXPLAIN is
\* sent only after SET LOCAL statement_timeout and then SET LOCAL work_mem succeeded.
TraceAlwaysRollsBack ==
    ret.op = "TraceQuery" =>
        /\ \A i \in DOMAIN ret.statements : ret.statements[i].sql # "COMMIT"
        /\ (\E i \in DOMAIN ret.statements : ret.statements[i] = Sent("BEGIN", TRUE)) =>
               /\ ret.statements[Len(ret.statements)] = Sent("ROLLBACK", TRUE)
               /\ \A i \in 1..(Len(ret.statements) - 1) : ret.statements[i].sql # "ROLLBACK"
        /\ (ret.err # NilErr /\ adapter.Pool # "nil" /\ ret.err # "failed to begin transaction for trace") =>
               \E i \in DOMAIN ret.statements : ret.statements[i] = Sent("BEGIN", TRUE)
        /\ ret.err = NilErr => ret.statements # <<>>
        /\ \A i \in ExplainPositions :
               \E j \in 1..(i - 1) : \E k \in (j + 1)..(i - 1) :
                   /\ ret.statements[j] = Sent(SetTimeoutSQL, TRUE)
                   /\ ret.statements[k] = Sent(SetWorkMemSQL, TRUE)

\* a trace whose EXPLAIN failed: both settings were applied, the EXPLAIN was
\* sent, and the transaction was rolled back
TraceAlwaysRollsBackWitness ==
    /\ ret.op = "TraceQuery"
    /\ ret.err = "trace execution failed"
    /\ ExplainPositions = {4}
    /\ ret.statements[5] = Sent("ROLLBACK", TRUE)

(***************************************************************************)
(* Properties of NewAdapter.                                               *)
(***************************************************************************)
\* s is p followed by something
StartsWith(s, p) == \E k \in 0..Len(s) : SubSeq(s, 1, k) = p

\* C27: NewAdapter returns an adapter and no error exactly for the connection
\* strings that start with postgres:// or postgresql://, and no adapter and an
\* error for every other one.
NewAdapterAcceptsPostgresOnly ==
    ret.op = "NewAdapter" =>
        IF StartsWith(ret.connString, PostgresScheme) \/ StartsWith(ret.connString, PostgresqlScheme)
        THEN ret.adapter # NoAdapter /\ ret.err = NilErr
        ELSE ret.adapter = NoAdapter /\ ret.err # NilErr

\* NewAdapter has refused a connection string that has a scheme other than the two
NewAdapterWitness ==
    /\ ret.op = "NewAdapter"
    /\ ret.connString = <<"m", "y", "s", "q", "l", ":", "/", "/", "d", "b">>
    /\ ret.adapter = NoAdapter
    /\ adapter = NoAdapter

(***************************************************************************)
(* Properties of the index hygiene line and of the saturation label.       *)
(***************************************************************************)
\* C29: when the analyze command prints that all N foreign keys are indexed,
\* every ForeignKey edge of the graph has a covering index on its source node
\* and IndexedFKs is the N printed.
IndexHygieneSuccessMeansAllIndexed ==
    (ret.op = "IndexHygiene"
         /\ ret.hygiene.line = "Index Hygiene: Excellent! All N FKs are indexed.") =>
        /\ ret.issues.IndexedFKs = ret.hygiene.n
        /\ FKSlots = KnownFKSlots
        /\ \A sl \in FKSlots : HasCoveringIndex(sl)

\* C30: when GetMetrics computed a saturation, the label is "(High)" exactly
\* when UsedConns * 100 / MaxConns, truncated, is greater than 80.
SaturationLabelFollowsPercentage ==
    (ret.op = "ImpactMetrics" /\ ret.metrics.MaxConns > 0) =>
        (ret.satLabel = "(High)" <=> (ret.metrics.UsedConns * 100) \div ret.metrics.MaxConns > 80)

====
